---- MODULE Spec2Model ----
(***************************************************************************)
(* A model of the cccp compiler pipeline: the Pratt parser of parser.go    *)
(* (src/unnamed/part_007), and the C code generator of codegen/codegen.go. *)
(*                                                                         *)
(* The token stream the lexer hands to the parser is the variable tokens;  *)
(* past its end the lexer keeps returning EOF (lexer.go NextToken case 0). *)
(* A literal is the sequence of its characters, each a one-letter string.  *)
(* AST nodes are records tagged with the Go type name in the field kind.   *)
(* Go has two different "nil" statements, and the model keeps them apart:  *)
(*   [kind |-> "nil"]                 the nil interface value              *)
(*   [kind |-> "nilptr", type |-> T]  a nil pointer *T stored in an        *)
(*                                    interface, which compares # nil      *)
(***************************************************************************)
EXTENDS Integers, Sequences, FiniteSets, TLC

VARIABLES
    tokens,     \* the token sequence produced by the lexer for the source
    pos,        \* index of Parser.curToken in tokens (peekToken is pos+1)
    errors,     \* Parser.errors
    program,    \* Program.Statements built so far
    stuck,      \* some parser loop iterated without consuming a token
    pc,         \* position of the pipeline
    cg,         \* the CodeGenerator object
    runs,       \* the texts returned by the calls of Generate so far
    src,        \* the source text, as the sequence of the pieces it is written from
    lexer,      \* the Lexer object
    lexed       \* the calls of NextToken so far: [tok, before, after]

vars == <<tokens, pos, errors, program, stuck, pc, cg, runs, src, lexer, lexed>>

----------------------------------------------------------------------------
(* ast.go: token types                                                     *)

Tok(t, l) == [type |-> t, lit |-> l]

EOFToken == Tok("EOF", <<>>)

\* parser.go: precedence levels (const block with iota)
LOWEST == 1
EQUALS == 2
LESSGREATER == 3
SUM == 4
PRODUCT == 5
PREFIX == 6
CALL == 7

\* parser.go: var precedences
precedences(t) ==
    CASE t \in {"==", "!="} -> EQUALS
      [] t \in {"+", "-"} -> SUM
      [] t \in {"*", "/"} -> PRODUCT
      [] OTHER -> 0

\* the keys of Parser.prefixParseFns and Parser.infixParseFns set up in New
PrefixTypes == {"IDENT", "INT", "STRING", "(", "FUNC"}
InfixTypes == {"+", "-", "*", "/", "==", "!="}

----------------------------------------------------------------------------
(* AST nodes                                                               *)

Nil == [kind |-> "nil"]
NilPtr(t) == [kind |-> "nilptr", type |-> t]
IsNil(n) == n.kind = "nil"

Identifier(tok) == [kind |-> "Identifier", value |-> tok.lit, tok |-> tok.type]

----------------------------------------------------------------------------
(* lexer.go: the Lexer.  The input is a sequence of bytes, each a one-     *)
(* letter string; NUL stands for the byte 0, which readChar and peekChar   *)
(* also return past the end of the input.  A lexer is the record           *)
(*   [input, position, readPosition, ch]                                   *)
(* with the positions counted from 0 as in the code.                       *)

NUL == "NUL"

Letters ==
    {"a","b","c","d","e","f","g","h","i","j","k","l","m","n","o","p","q","r","s",
     "t","u","v","w","x","y","z","A","B","C","D","E","F","G","H","I","J","K","L",
     "M","N","O","P","Q","R","S","T","U","V","W","X","Y","Z","_"}
Digits == {"0","1","2","3","4","5","6","7","8","9"}

isLetter(ch) == ch \in Letters
isDigit(ch) == ch \in Digits

readChar(l) ==
    [l EXCEPT !.ch = IF l.readPosition >= Len(l.input) THEN NUL
                     ELSE l.input[l.readPosition + 1],
              !.position = l.readPosition,
              !.readPosition = l.readPosition + 1]

peekChar(l) ==
    IF l.readPosition >= Len(l.input) THEN NUL ELSE l.input[l.readPosition + 1]

\* lexer.New
NewLexer(input) ==
    readChar([input |-> input, position |-> 0, readPosition |-> 0, ch |-> NUL])

RECURSIVE skipWhitespace(_)
skipWhitespace(l) ==
    IF l.ch \in {" ", "\t", "\n", "\r"} THEN skipWhitespace(readChar(l)) ELSE l

RECURSIVE lineCommentLoop(_)
\* the loop "for l.ch != '\n' && l.ch != 0" of skipLineComment
lineCommentLoop(l) ==
    IF l.ch # "\n" /\ l.ch # NUL THEN lineCommentLoop(readChar(l)) ELSE l

skipLineComment(l) == skipWhitespace(lineCommentLoop(l))

RECURSIVE blockCommentLoop(_)
\* the loop "for l.ch != 0" of skipBlockComment
blockCommentLoop(l) ==
    IF l.ch = NUL THEN l
    ELSE IF l.ch = "*" /\ peekChar(l) = "/" THEN readChar(readChar(l))
    ELSE blockCommentLoop(readChar(l))

skipBlockComment(l) == skipWhitespace(blockCommentLoop(readChar(readChar(l))))

\* input[from:to]
Slice(input, from, to) == SubSeq(input, from + 1, to)

RECURSIVE stringLoop(_)
\* the loop "for l.ch != '"' && l.ch != 0" of readString
stringLoop(l) == IF l.ch # "\"" /\ l.ch # NUL THEN stringLoop(readChar(l)) ELSE l

\* readString, readIdentifier and readNumber return [lit, l]
readString(l) ==
    LET l1 == readChar(l)
        l2 == stringLoop(l1)
    IN  [lit |-> Slice(l.input, l1.position, l2.position),
         l |-> IF l2.ch = "\"" THEN readChar(l2) ELSE l2]

RECURSIVE identifierLoop(_), numberLoop(_)
identifierLoop(l) == IF isLetter(l.ch) THEN identifierLoop(readChar(l)) ELSE l
numberLoop(l) == IF isDigit(l.ch) THEN numberLoop(readChar(l)) ELSE l

readIdentifier(l) ==
    LET l1 == identifierLoop(l)
    IN  [lit |-> Slice(l.input, l.position, l1.position), l |-> l1]

readNumber(l) ==
    LET l1 == numberLoop(l)
    IN  [lit |-> Slice(l.input, l.position, l1.position), l |-> l1]

LookupIdent(ident) ==
    CASE ident = <<"p", "r", "i", "n", "t">> -> "PRINT"
      [] ident = <<"v", "a", "r">> -> "VAR"
      [] ident = <<"i", "f">> -> "IF"
      [] ident = <<"e", "x", "t", "e", "r", "n">> -> "EXTERN"
      [] ident = <<"f", "u", "n", "c">> -> "FUNC"
      [] ident = <<"r", "e", "t", "u", "r", "n">> -> "RETURN"
      [] OTHER -> "IDENT"

newToken(tokenType, ch) == Tok(tokenType, <<ch>>)

\* a token returned by NextToken with the lexer it leaves: [tok, l]
Lexed(tok, l) == [tok |-> tok, l |-> l]

\* the end of NextToken without its "l.readChar()"
finishTokenNoRead(tok, l) == Lexed(tok, l)

\* the end of NextToken for the cases that leave the switch:
\* "l.readChar(); return &tok"
finishToken(tok, l) == Lexed(tok, readChar(l))

\* the switch of NextToken
switchChar(l) ==
    CASE l.ch = "\"" -> LET s == readString(l) IN Lexed(Tok("STRING", s.lit), s.l)
      [] l.ch = "=" ->
            IF peekChar(l) = "=" THEN finishToken(Tok("==", <<"=", "=">>), readChar(l))
            ELSE finishToken(newToken("=", l.ch), l)
      [] l.ch = "!" ->
            IF peekChar(l) = "=" THEN finishToken(Tok("!=", <<"!", "=">>), readChar(l))
            ELSE finishToken(newToken("ILLEGAL", l.ch), l)
      [] l.ch = ":" -> finishToken(newToken(":", l.ch), l)
      [] l.ch = "." ->
            IF peekChar(l) = "."
            THEN LET l1 == readChar(l)
                 IN  IF peekChar(l1) = "."
                     THEN finishToken(Tok("...", <<".", ".", ".">>), readChar(l1))
                     ELSE finishToken(newToken("ILLEGAL", l1.ch), l1)
            ELSE finishToken(newToken(".", l.ch), l)
      [] l.ch \in {"{", "}", "+", "-", "*", "/", ",", ";", "(", ")"} ->
            finishToken(newToken(l.ch, l.ch), l)
      [] l.ch = NUL -> finishToken(Tok("EOF", <<>>), l)
      [] OTHER ->
            IF isLetter(l.ch)
            THEN LET s == readIdentifier(l) IN Lexed(Tok(LookupIdent(s.lit), s.lit), s.l)
            ELSE IF isDigit(l.ch)
            THEN LET s == readNumber(l) IN Lexed(Tok("INT", s.lit), s.l)
            ELSE finishToken(newToken("ILLEGAL", l.ch), l)

RECURSIVE NextToken(_)
\* Lexer.NextToken: [tok, l]
NextToken(l) ==
    LET l1 == skipWhitespace(l)
    IN  IF l1.ch = "/" /\ peekChar(l1) = "/" THEN NextToken(skipLineComment(l1))
        ELSE IF l1.ch = "/" /\ peekChar(l1) = "*" THEN NextToken(skipBlockComment(l1))
        ELSE switchChar(l1)

RECURSIVE TokenizeFrom(_, _)
\* the tokens the parser draws from the lexer: those NextToken returns up to
\* the first EOF, which the parser does not read past
TokenizeFrom(l, acc) ==
    LET r == NextToken(l)
    IN  IF r.tok.type = "EOF" THEN acc ELSE TokenizeFrom(r.l, Append(acc, r.tok))

Tokenize(input) == TokenizeFrom(NewLexer(input), <<>>)

----------------------------------------------------------------------------
(* Parser state threaded through the parse functions:                      *)
(*   [pos, errors, stuck]; a parse function returns [node, p].             *)

TokAt(i) == IF i >= 1 /\ i <= Len(tokens) THEN tokens[i] ELSE EOFToken

curToken(p) == TokAt(p.pos)
peekToken(p) == TokAt(p.pos + 1)
curTokenIs(p, t) == curToken(p).type = t
peekTokenIs(p, t) == peekToken(p).type = t

\* Parser.nextToken: past the end of the input the lexer returns EOF again,
\* so the cursor stays on the first position after the input.
nextToken(p) == [p EXCEPT !.pos = IF @ <= Len(tokens) THEN @ + 1 ELSE @]

peekError(p, t) ==
    [p EXCEPT !.errors = Append(@, [kind |-> "peekError", expected |-> t,
                                    got |-> peekToken(p).type])]

noPrefixParseFnError(p, t) ==
    [p EXCEPT !.errors = Append(@, [kind |-> "noPrefix", type |-> t])]

\* Parser.expectPeek: [ok, p]
expectPeek(p, t) ==
    IF peekTokenIs(p, t) THEN [ok |-> TRUE, p |-> nextToken(p)]
    ELSE [ok |-> FALSE, p |-> peekError(p, t)]

curPrecedence(p) ==
    IF precedences(curToken(p).type) # 0 THEN precedences(curToken(p).type) ELSE LOWEST
peekPrecedence(p) ==
    IF precedences(peekToken(p).type) # 0 THEN precedences(peekToken(p).type) ELSE LOWEST

R(n, p) == [node |-> n, p |-> p]

\* A loop iteration that goes round again without having consumed a token
\* would never end; the model records it and leaves the loop.
Stuck(p) == [p EXCEPT !.stuck = TRUE]

----------------------------------------------------------------------------
(* strconv.ParseInt(lit, 0, 64) on a digit run, as parseIntegerLiteral     *)
(* calls it: base 0 reads a leading "0" as the octal prefix.               *)

DigitVal(c) ==
    CASE c = "0" -> 0 [] c = "1" -> 1 [] c = "2" -> 2 [] c = "3" -> 3
      [] c = "4" -> 4 [] c = "5" -> 5 [] c = "6" -> 6 [] c = "7" -> 7
      [] c = "8" -> 8 [] c = "9" -> 9 [] OTHER -> 99

RECURSIVE StripZeros(_)
StripZeros(s) == IF s # <<>> /\ Head(s) = "0" THEN StripZeros(Tail(s)) ELSE s

RECURSIVE LexGreater(_, _)
\* s > t for two digit runs of the same length
LexGreater(s, t) ==
    IF s = <<>> THEN FALSE
    ELSE IF DigitVal(Head(s)) # DigitVal(Head(t)) THEN DigitVal(Head(s)) > DigitVal(Head(t))
    ELSE LexGreater(Tail(s), Tail(t))

\* the digits of 1<<63 - 1
MaxInt64Digits ==
    <<"9","2","2","3","3","7","2","0","3","6","8","5","4","7","7","5","8","0","7">>

RECURSIVE DigitsValue(_, _, _)
DigitsValue(s, base, acc) ==
    IF s = <<>> THEN acc ELSE DigitsValue(Tail(s), base, acc * base + DigitVal(Head(s)))

\* [ok, value]; the value is computed only for a literal ParseInt accepts
ParseInt(lit) ==
    LET octal == lit # <<>> /\ Head(lit) = "0"
        base == IF octal THEN 8 ELSE 10
        s == IF octal THEN Tail(lit) ELSE lit
        sig == StripZeros(s)
        syntaxOk == lit # <<>> /\ \A i \in 1..Len(s) : DigitVal(s[i]) < base
        inRange == IF octal THEN Len(sig) <= 21
                   ELSE Len(sig) < 19 \/ (Len(sig) = 19 /\ ~LexGreater(sig, MaxInt64Digits))
    IN  IF syntaxOk /\ inRange
        THEN [ok |-> TRUE, value |-> DigitsValue(s, base, 0)]
        ELSE [ok |-> FALSE, value |-> 0]

----------------------------------------------------------------------------
(* parser.go: the parse functions                                          *)

\* The parse functions call each other recursively through three of them:
\* p.parseExpression, p.parseStatement and p.parseBlockStatement.  Those
\* calls are written p_parseExpression, ... and resolved by Parser below.
RECURSIVE Parser(_, _)
p_parseExpression(p, precedence) == Parser("parseExpression", <<p, precedence>>)
p_parseStatement(p) == Parser("parseStatement", <<p>>)
p_parseBlockStatement(p) == Parser("parseBlockStatement", <<p>>)

RECURSIVE BlockLoop(_, _, _), CallLoop(_, _), InfixLoop(_, _, _), ExprListLoop(_, _)

\* the loop "for p.peekTokenIs(ast.COMMA)" of parseFunctionParameters
RECURSIVE ParamLoop(_, _)
ParamLoop(ids, p) ==
    IF ~peekTokenIs(p, ",") THEN R(ids, p)
    ELSE LET p2 == nextToken(nextToken(p))
         IN  IF p2.pos <= p.pos THEN R(ids, Stuck(p2))
             ELSE ParamLoop(Append(ids, Identifier(curToken(p2))), p2)

\* Parser.parseFunctionParameters: the node is the parameter list (nil and
\* the empty slice are both the empty sequence: the generator only ranges
\* over it)
parseFunctionParameters(p) ==
    IF peekTokenIs(p, ")") THEN R(<<>>, nextToken(p))
    ELSE LET p1 == nextToken(p)
             l == ParamLoop(<<Identifier(curToken(p1))>>, p1)
             e == expectPeek(l.p, ")")
         IN  IF e.ok THEN R(l.node, e.p) ELSE R(<<>>, e.p)

parseIdentifier(p) == R(Identifier(curToken(p)), p)

parseStringLiteral(p) == R([kind |-> "StringLiteral", value |-> curToken(p).lit], p)

parseIntegerLiteral(p) ==
    LET r == ParseInt(curToken(p).lit)
    IN  IF r.ok THEN R([kind |-> "IntegerLiteral", value |-> r.value], p)
        ELSE R(Nil, [p EXCEPT !.errors =
                        Append(@, [kind |-> "intError", lit |-> curToken(p).lit])])

\* the loop "for p.peekTokenIs(ast.COMMA)" of parseExpressionList
ExprListLoop(list, p) ==
    IF ~peekTokenIs(p, ",") THEN R(list, p)
    ELSE LET e == p_parseExpression(nextToken(nextToken(p)), LOWEST)
             list2 == IF IsNil(e.node) THEN list ELSE Append(list, e.node)
         IN  IF e.p.pos <= p.pos THEN R(list2, Stuck(e.p))
             ELSE ExprListLoop(list2, e.p)

parseExpressionList(p, end) ==
    IF peekTokenIs(p, end) THEN R(<<>>, nextToken(p))
    ELSE LET e == p_parseExpression(nextToken(p), LOWEST)
             l == ExprListLoop(IF IsNil(e.node) THEN <<>> ELSE <<e.node>>, e.p)
             x == expectPeek(l.p, end)
         IN  IF x.ok THEN R(l.node, x.p) ELSE R(<<>>, x.p)

parseFunctionCall(function, p) ==
    IF IsNil(function) THEN R(Nil, p)
    ELSE LET a == parseExpressionList(p, ")")
         IN  R([kind |-> "FunctionCall", function |-> function, arguments |-> a.node], a.p)

\* parseInfixExpression that parses its right operand at the lowest
\* precedence instead of the operator's own
parseInfixExpressionLowest(left, p) ==
    LET r == p_parseExpression(nextToken(p), LOWEST)
    IN  R([kind |-> "InfixExpression", operator |-> curToken(p).lit,
           left |-> left, right |-> r.node], r.p)

parseInfixExpression(left, p) ==
    LET r == p_parseExpression(nextToken(p), curPrecedence(p))
    IN  R([kind |-> "InfixExpression", operator |-> curToken(p).lit,
           left |-> left, right |-> r.node], r.p)

parseGroupedExpression(p) ==
    LET e == p_parseExpression(nextToken(p), LOWEST)
        x == expectPeek(e.p, ")")
    IN  IF x.ok THEN R(e.node, x.p) ELSE R(Nil, x.p)

parseFunctionLiteral(p) ==
    LET e1 == expectPeek(p, "(")
        ps == parseFunctionParameters(e1.p)
        e2 == expectPeek(ps.p, "{")
        b == p_parseBlockStatement(e2.p)
    IN  IF ~e1.ok THEN R(Nil, e1.p)
        ELSE IF ~e2.ok THEN R(Nil, e2.p)
        ELSE R([kind |-> "FunctionLiteral", parameters |-> ps.node, body |-> b.node], b.p)

parsePrefix(p) ==
    CASE curTokenIs(p, "IDENT") -> parseIdentifier(p)
      [] curTokenIs(p, "INT") -> parseIntegerLiteral(p)
      [] curTokenIs(p, "STRING") -> parseStringLiteral(p)
      [] curTokenIs(p, "(") -> parseGroupedExpression(p)
      [] curTokenIs(p, "FUNC") -> parseFunctionLiteral(p)

\* the loop "for p.peekTokenIs(ast.LPAREN)" of parseExpression
CallLoop(left, p) ==
    IF ~peekTokenIs(p, "(") THEN R(left, p)
    ELSE LET r == parseFunctionCall(left, nextToken(p))
         IN  IF r.p.pos <= p.pos THEN R(r.node, Stuck(r.p))
             ELSE CallLoop(r.node, r.p)

\* the loop "for !p.peekTokenIs(ast.SEMICOLON) && precedence < p.peekPrecedence()"
InfixLoop(left, p, precedence) ==
    IF ~(~peekTokenIs(p, ";") /\ precedence < peekPrecedence(p)) THEN R(left, p)
    ELSE IF peekToken(p).type \notin InfixTypes THEN R(left, p)
    ELSE LET r == parseInfixExpression(left, nextToken(p))
         IN  IF r.p.pos <= p.pos THEN R(r.node, Stuck(r.p))
             ELSE InfixLoop(r.node, r.p, precedence)

parseExpression(p, precedence) ==
    IF curToken(p).type \notin PrefixTypes
    THEN R(Nil, noPrefixParseFnError(p, curToken(p).type))
    ELSE LET l == parsePrefix(p)
             c == CallLoop(l.node, l.p)
         IN  InfixLoop(c.node, c.p, precedence)

----------------------------------------------------------------------------
(* parser.go: statements.  A statement parser whose Go result type is a    *)
(* pointer (to ast.LetStatement, ...) returns NilPtr of that type where the*)
(* code says "return nil".                                                 *)

\* "Optional semicolon": if p.peekTokenIs(ast.SEMICOLON) { p.nextToken() }
optSemicolon(p) == IF peekTokenIs(p, ";") THEN nextToken(p) ELSE p

parseReturnStatement(p) ==
    LET p1 == nextToken(p)
        v == IF ~curTokenIs(p1, ";") THEN p_parseExpression(p1, LOWEST) ELSE R(Nil, p1)
    IN  R([kind |-> "ReturnStatement", value |-> v.node], optSemicolon(v.p))

parseFunctionStatement(p) ==
    LET e1 == expectPeek(p, "IDENT")
        e2 == expectPeek(e1.p, "(")
        ps == parseFunctionParameters(e2.p)
        e3 == expectPeek(ps.p, "{")
        b == p_parseBlockStatement(e3.p)
    IN  IF ~e1.ok THEN R(NilPtr("FunctionStatement"), e1.p)
        ELSE IF ~e2.ok THEN R(NilPtr("FunctionStatement"), e2.p)
        ELSE IF ~e3.ok THEN R(NilPtr("FunctionStatement"), e3.p)
        ELSE R([kind |-> "FunctionStatement", name |-> curToken(e1.p).lit,
                parameters |-> ps.node, body |-> b.node], b.p)

parseExternStatement(p) ==
    LET e == expectPeek(p, "IDENT")
    IN  IF ~e.ok THEN R(NilPtr("ExternStatement"), e.p)
        ELSE IF peekTokenIs(e.p, ";")
        THEN R([kind |-> "ExternStatement", name |-> curToken(e.p).lit], nextToken(e.p))
        ELSE R(NilPtr("ExternStatement"), e.p)

parseIfStatement(p) ==
    LET c == p_parseExpression(nextToken(p), LOWEST)
        e == expectPeek(c.p, "{")
        b == p_parseBlockStatement(e.p)
    IN  IF ~e.ok THEN R(NilPtr("IfStatement"), e.p)
        ELSE R([kind |-> "IfStatement", condition |-> c.node, consequence |-> b.node], b.p)

\* the loop "for braceCount > 0 && !p.curTokenIs(ast.EOF)" of parseBlockStatement
BlockLoop(stmts, braceCount, p) ==
    IF ~(braceCount > 0 /\ ~curTokenIs(p, "EOF"))
    THEN R([kind |-> "BlockStatement", statements |-> stmts], p)
    ELSE LET bc == IF curTokenIs(p, "{") THEN braceCount + 1
                   ELSE IF curTokenIs(p, "}") THEN braceCount - 1
                   ELSE braceCount
         IN  IF curTokenIs(p, "}") /\ bc = 0
             THEN R([kind |-> "BlockStatement", statements |-> stmts], p)
             ELSE LET s == IF ~curTokenIs(p, "}") \/ bc > 0
                           THEN p_parseStatement(p) ELSE R(Nil, p)
                      stmts2 == IF ~IsNil(s.node) THEN Append(stmts, s.node) ELSE stmts
                      p2 == IF bc > 0 /\ ~curTokenIs(s.p, "EOF") THEN nextToken(s.p) ELSE s.p
                  IN  IF p2.pos <= p.pos /\ bc > 0 /\ ~curTokenIs(p2, "EOF")
                      THEN R([kind |-> "BlockStatement", statements |-> stmts2], Stuck(p2))
                      ELSE BlockLoop(stmts2, bc, p2)

parseBlockStatement(p) == BlockLoop(<<>>, 1, nextToken(p))

parseAssignmentStatement(p) ==
    LET e == expectPeek(p, "=")
        v == p_parseExpression(nextToken(e.p), LOWEST)
    IN  IF ~e.ok THEN R(NilPtr("AssignmentStatement"), e.p)
        ELSE R([kind |-> "AssignmentStatement", name |-> curToken(p).lit,
                value |-> v.node], optSemicolon(v.p))

parseLetStatement(p) ==
    LET e == expectPeek(p, "IDENT")
        name == curToken(e.p).lit
        v == p_parseExpression(nextToken(nextToken(e.p)), LOWEST)
    IN  IF ~e.ok THEN R(NilPtr("LetStatement"), e.p)
        ELSE IF peekTokenIs(e.p, ";")
        THEN R([kind |-> "LetStatement", name |-> name, value |-> Nil], nextToken(e.p))
        ELSE IF peekTokenIs(e.p, "=")
        THEN R([kind |-> "LetStatement", name |-> name, value |-> v.node], optSemicolon(v.p))
        ELSE R([kind |-> "LetStatement", name |-> name, value |-> Nil], optSemicolon(e.p))

parsePrintStatement(p) ==
    LET e1 == expectPeek(p, "(")
        v == p_parseExpression(nextToken(e1.p), LOWEST)
        e2 == expectPeek(v.p, ")")
    IN  IF ~e1.ok THEN R(NilPtr("PrintStatement"), e1.p)
        ELSE IF ~e2.ok THEN R(NilPtr("PrintStatement"), e2.p)
        ELSE R([kind |-> "PrintStatement", value |-> v.node], optSemicolon(nextToken(e2.p)))

\* the case ast.IDENT of parseStatement
parseIdentStatement(p) ==
    IF peekTokenIs(p, "=") THEN parseAssignmentStatement(p)
    ELSE LET x == p_parseExpression(p, LOWEST)
         IN  IF ~IsNil(x.node)
             THEN R([kind |-> "ExpressionStatement", expression |-> x.node], x.p)
             ELSE R(Nil, x.p)

\* Parser.parseStatement: the result is an ast.Statement interface value, so
\* a nil pointer returned by a statement parser arrives as NilPtr, not Nil
parseStatement(p) ==
    CASE curTokenIs(p, "VAR") -> parseLetStatement(p)
      [] curTokenIs(p, "PRINT") -> parsePrintStatement(p)
      [] curTokenIs(p, "IF") -> parseIfStatement(p)
      [] curTokenIs(p, "EXTERN") -> parseExternStatement(p)
      [] curTokenIs(p, "RETURN") -> parseReturnStatement(p)
      [] curTokenIs(p, "FUNC") -> parseFunctionStatement(p)
      [] curTokenIs(p, "{") -> p_parseBlockStatement(p)
      [] curTokenIs(p, "IDENT") -> parseIdentStatement(p)
      [] OTHER -> R(Nil, p)

Parser(method, a) ==
    CASE method = "parseExpression" -> parseExpression(a[1], a[2])
      [] method = "parseStatement" -> parseStatement(a[1])
      [] method = "parseBlockStatement" -> parseBlockStatement(a[1])


----------------------------------------------------------------------------
(* codegen.go: the CodeGenerator.  cg is the record                        *)
(*   [output, variables, functions, currentFunc, funcCounter, panicked]    *)
(* output is the text written so far, a sequence of pieces: a fixed piece  *)
(* of C text is one string, a name or literal of the source contributes    *)
(* its characters.  A Go map is a function; panicked records a run-time    *)
(* panic (a nil pointer dereference), after which no call returns.         *)

EmptyMap == <<>>
MapSet(m, k, v) == (k :> v) @@ m

NewGenerator ==
    [output |-> <<>>, variables |-> EmptyMap, functions |-> EmptyMap,
     currentFunc |-> Nil, funcCounter |-> 0, panicked |-> FALSE]

WriteString(g, piece) == [g EXCEPT !.output = Append(@, piece)]
WriteChars(g, chars) == [g EXCEPT !.output = @ \o chars]
Panic(g) == [g EXCEPT !.panicked = TRUE]

DigitChar(d) ==
    CASE d = 0 -> "0" [] d = 1 -> "1" [] d = 2 -> "2" [] d = 3 -> "3" [] d = 4 -> "4"
      [] d = 5 -> "5" [] d = 6 -> "6" [] d = 7 -> "7" [] d = 8 -> "8" [] d = 9 -> "9"

RECURSIVE FormatInt(_)
\* fmt.Sprintf("%d", n) for n >= 0
FormatInt(n) == IF n < 10 THEN <<DigitChar(n)>> ELSE Append(FormatInt(n \div 10), DigitChar(n % 10))

isStringVariable(g, exp) ==
    /\ exp.kind = "Identifier"
    /\ exp.value \in DOMAIN g.variables
    /\ g.variables[exp.value] = "string"

\* isSimpleStringConcat also accepting two string-typed identifiers
isSimpleStringConcatIdents(g, exp) ==
    IF exp.operator # <<"+">> THEN FALSE
    ELSE LET leftIsString == exp.left.kind = "StringLiteral" \/ isStringVariable(g, exp.left)
             rightIsString == exp.right.kind = "StringLiteral" \/ isStringVariable(g, exp.right)
         IN  leftIsString /\ rightIsString

isSimpleStringConcat(g, exp) ==
    IF exp.operator # <<"+">> THEN FALSE
    ELSE LET leftIsString == exp.left.kind = "StringLiteral"
             rightIsString == exp.right.kind = "StringLiteral"
             leftIsStringVar == isStringVariable(g, exp.left)
             rightIsStringVar == isStringVariable(g, exp.right)
         IN  \/ (leftIsString /\ rightIsString)
             \/ (leftIsString /\ rightIsStringVar)
             \/ (leftIsStringVar /\ rightIsString)

expressionIsString(g, exp) ==
    CASE exp.kind = "StringLiteral" -> TRUE
      [] exp.kind = "InfixExpression" -> exp.operator = <<"+">> /\ isSimpleStringConcat(g, exp)
      [] exp.kind = "Identifier" ->
            exp.value \in DOMAIN g.variables /\ g.variables[exp.value] = "string"
      [] OTHER -> FALSE

isStringComparison(g, exp) ==
    expressionIsString(g, exp.left) \/ expressionIsString(g, exp.right)

\* generateSimpleStringConcat writing the identifier first in case 2
generateSimpleStringConcatSwapped(g, exp) ==
    LET leftIsString == exp.left.kind = "StringLiteral"
        rightIsString == exp.right.kind = "StringLiteral"
        leftIsIdent == exp.left.kind = "Identifier"
        rightIsIdent == exp.right.kind = "Identifier"
    IN  IF leftIsString /\ rightIsString
        THEN WriteString(WriteChars(WriteChars(WriteString(g, "\""),
                 exp.left.value), exp.right.value), "\"")
        ELSE IF leftIsString /\ rightIsIdent
        THEN WriteString(WriteChars(WriteString(WriteChars(WriteString(g,
                 "concat_strings("), exp.right.value), ", \""), exp.left.value), "\")")
        ELSE IF leftIsIdent /\ rightIsString
        THEN WriteString(WriteChars(WriteString(WriteChars(WriteString(g,
                 "concat_strings("), exp.left.value), ", \""), exp.right.value), "\")")
        ELSE WriteString(g, "\"concat_error\"")

generateSimpleStringConcat(g, exp) ==
    LET leftIsString == exp.left.kind = "StringLiteral"
        rightIsString == exp.right.kind = "StringLiteral"
        leftIsIdent == exp.left.kind = "Identifier"
        rightIsIdent == exp.right.kind = "Identifier"
    IN  IF leftIsString /\ rightIsString
        THEN WriteString(WriteChars(WriteChars(WriteString(g, "\""),
                 exp.left.value), exp.right.value), "\"")
        ELSE IF leftIsString /\ rightIsIdent
        THEN WriteString(WriteChars(WriteString(WriteChars(WriteString(g,
                 "concat_strings(\""), exp.left.value), "\", "), exp.right.value), ")")
        ELSE IF leftIsIdent /\ rightIsString
        THEN WriteString(WriteChars(WriteString(WriteChars(WriteString(g,
                 "concat_strings("), exp.left.value), ", \""), exp.right.value), "\")")
        ELSE WriteString(g, "\"concat_error\"")

RECURSIVE generateExpression(_, _), generateArguments(_, _, _)

generateStringComparison(g, exp) ==
    LET g1 == WriteString(g, "(strcmp(")
        g2 == generateExpression(g1, exp.left)
        g3 == WriteString(g2, ", ")
        g4 == generateExpression(g3, exp.right)
    IN  IF exp.operator = <<"=", "=">> THEN WriteString(g4, ") == 0)")
        ELSE IF exp.operator = <<"!", "=">> THEN WriteString(g4, ") != 0)")
        ELSE g

\* the argument loop of generateFunctionCall, from argument i on
generateArguments(g, args, i) ==
    IF i > Len(args) THEN g
    ELSE generateArguments(
             generateExpression(IF i > 1 THEN WriteString(g, ", ") ELSE g, args[i]),
             args, i + 1)

generateFunctionCall(g, call) ==
    LET g1 == IF call.function.kind = "Identifier"
              THEN WriteChars(g, call.function.value)
              ELSE generateExpression(g, call.function)
    IN  WriteString(generateArguments(WriteString(g1, "("), call.arguments, 1), ")")

generateExpression(g, exp) ==
    CASE exp.kind = "Identifier" -> WriteChars(g, exp.value)
      [] exp.kind = "IntegerLiteral" -> WriteChars(g, FormatInt(exp.value))
      [] exp.kind = "StringLiteral" ->
            WriteString(WriteChars(WriteString(g, "\""), exp.value), "\"")
      [] exp.kind = "InfixExpression" ->
            IF exp.operator = <<"+">> /\ isSimpleStringConcat(g, exp)
            THEN generateSimpleStringConcat(g, exp)
            ELSE IF exp.operator \in {<<"=", "=">>, <<"!", "=">>} /\ isStringComparison(g, exp)
            THEN generateStringComparison(g, exp)
            ELSE generateExpression(
                     WriteString(WriteChars(WriteString(
                         generateExpression(g, exp.left), " "), exp.operator), " "),
                     exp.right)
      [] exp.kind = "FunctionCall" -> generateFunctionCall(g, exp)
      [] OTHER -> g

----------------------------------------------------------------------------
(* codegen.go: statements                                                  *)

RECURSIVE generateStatement(_, _), generateStatements(_, _, _)

backupVariables(g) == g.variables

generateLetStatement(g, stmt) ==
    IF ~IsNil(stmt.value)
    THEN IF expressionIsString(g, stmt.value)
         THEN LET g1 == [g EXCEPT !.variables = MapSet(@, stmt.name, "string")]
                  g2 == WriteString(WriteChars(WriteString(g1, "    char* "), stmt.name), " = ")
              IN  WriteString(generateExpression(g2, stmt.value), ";\n")
         ELSE LET g1 == [g EXCEPT !.variables = MapSet(@, stmt.name, "int")]
                  g2 == WriteString(WriteChars(WriteString(g1, "    int "), stmt.name), " = ")
              IN  WriteString(generateExpression(g2, stmt.value), ";\n")
    ELSE LET g1 == [g EXCEPT !.variables = MapSet(@, stmt.name, "int")]
         IN  WriteString(WriteChars(WriteString(g1, "    int "), stmt.name), ";\n")

\* generateAssignmentStatement recording the type of the value on every
\* assignment, declared or not
generateAssignmentStatementRetype(g, stmt) ==
    LET t == IF expressionIsString(g, stmt.value) THEN "string" ELSE "int"
        g0 == [g EXCEPT !.variables = MapSet(@, stmt.name, t)]
        g1 == IF stmt.name \notin DOMAIN g.variables
              THEN WriteString(g0, IF t = "string" THEN "    char* " ELSE "    int ")
              ELSE WriteString(g0, "    ")
        g2 == WriteString(WriteChars(g1, stmt.name), " = ")
    IN  WriteString(generateExpression(g2, stmt.value), ";\n")

generateAssignmentStatement(g, stmt) ==
    LET g1 == IF stmt.name \notin DOMAIN g.variables
              THEN IF expressionIsString(g, stmt.value)
                   THEN WriteString([g EXCEPT !.variables = MapSet(@, stmt.name, "string")],
                                    "    char* ")
                   ELSE WriteString([g EXCEPT !.variables = MapSet(@, stmt.name, "int")],
                                    "    int ")
              ELSE WriteString(g, "    ")
        g2 == WriteString(WriteChars(g1, stmt.name), " = ")
    IN  WriteString(generateExpression(g2, stmt.value), ";\n")

generatePrintStatement(g, stmt) ==
    LET asString == WriteString(generateExpression(
                        WriteString(g, "    printf(\"%s\\n\", "), stmt.value), ");\n")
        asInt == WriteString(generateExpression(
                        WriteString(g, "    printf(\"%d\\n\", "), stmt.value), ");\n")
    IN  CASE stmt.value.kind = "Identifier" ->
                IF stmt.value.value \in DOMAIN g.variables
                   /\ g.variables[stmt.value.value] = "string"
                THEN asString ELSE asInt
          [] stmt.value.kind = "StringLiteral" -> asString
          [] OTHER -> asInt

\* generateBlockStatement without "cg.variables = blockVariables"
generateBlockStatementNoRestore(g, block) == generateStatements(g, block.statements, 1)

generateBlockStatement(g, block) ==
    LET blockVariables == backupVariables(g)
        g1 == generateStatements(g, block.statements, 1)
    IN  [g1 EXCEPT !.variables = blockVariables]

generateIfStatement(g, stmt) ==
    LET oldVariables == backupVariables(g)
        g1 == generateExpression(WriteString(g, "    if ("), stmt.condition)
        g2 == generateBlockStatement(WriteString(g1, ") {\n"), stmt.consequence)
    IN  [WriteString(g2, "    }\n") EXCEPT !.variables = oldVariables]

generateExternStatement(g, stmt) ==
    WriteString(WriteChars(WriteString(g, "    // extern "), stmt.name),
                " declared (handled by C headers)\n")

generateReturnStatement(g, stmt) ==
    LET g1 == WriteString(g, "    return")
        g2 == IF ~IsNil(stmt.value)
              THEN generateExpression(WriteString(g1, " "), stmt.value) ELSE g1
    IN  WriteString(g2, ";\n")

FunctionLiteralOf(stmt) ==
    [kind |-> "FunctionLiteral", parameters |-> stmt.parameters, body |-> stmt.body]

generateFunctionStatement(g, stmt) ==
    [g EXCEPT !.functions = MapSet(@, stmt.name, FunctionLiteralOf(stmt))]

generateAutoPrint(g, exp) ==
    IF IsNil(g.currentFunc)
    THEN LET g1 == WriteString(generateExpression(
                       WriteString(g, "    // Auto-print: "), exp), "\n")
         IN  IF exp.kind = "StringLiteral"
             THEN WriteString(generateExpression(
                      WriteString(g1, "    printf(\"%s\\n\", "), exp), ");\n")
             ELSE WriteString(generateExpression(
                      WriteString(g1, "    printf(\"%d\\n\", "), exp), ");\n")
    ELSE WriteString(generateExpression(g, exp), ";\n")

\* CodeGenerator.generateStatement: the type switch goes by the dynamic
\* type, so a nil pointer of a statement type reaches that type's generator,
\* which dereferences it and panics
generateStatement(g, stmt) ==
    IF g.panicked THEN g
    ELSE IF stmt.kind = "nilptr" THEN Panic(g)
    ELSE CASE stmt.kind = "LetStatement" -> generateLetStatement(g, stmt)
           [] stmt.kind = "PrintStatement" -> generatePrintStatement(g, stmt)
           [] stmt.kind = "AssignmentStatement" -> generateAssignmentStatement(g, stmt)
           [] stmt.kind = "IfStatement" -> generateIfStatement(g, stmt)
           [] stmt.kind = "BlockStatement" -> generateBlockStatement(g, stmt)
           [] stmt.kind = "ExternStatement" -> generateExternStatement(g, stmt)
           [] stmt.kind = "ReturnStatement" -> generateReturnStatement(g, stmt)
           [] stmt.kind = "FunctionStatement" -> generateFunctionStatement(g, stmt)
           [] stmt.kind = "ExpressionStatement" -> generateAutoPrint(g, stmt.expression)
           [] OTHER -> g

\* "for _, stmt := range statements { cg.generateStatement(stmt) }", from i on
generateStatements(g, stmts, i) ==
    IF i > Len(stmts) THEN g
    ELSE generateStatements(generateStatement(g, stmts[i]), stmts, i + 1)

----------------------------------------------------------------------------
(* codegen.go: functions and Generate                                      *)

generateStringConcatHelper(g) ==
    WriteString(WriteString(WriteString(WriteString(WriteString(WriteString(g,
        "char* concat_strings(const char* a, const char* b) {\n"),
        "    char* result = malloc(strlen(a) + strlen(b) + 1);\n"),
        "    strcpy(result, a);\n"),
        "    strcat(result, b);\n"),
        "    return result;\n"),
        "}\n\n")

\* fmt.Sprintf("func_%d", n)
AnonymousName(n) == <<"f", "u", "n", "c", "_">> \o FormatInt(n)

RECURSIVE extractLoop(_, _, _, _)
\* the loop of extractFunctions from statement i on: [g, main]
extractLoop(g, statements, i, main) ==
    IF i > Len(statements) \/ g.panicked THEN [g |-> g, main |-> main]
    ELSE LET stmt == statements[i]
         IN  IF stmt.kind = "nilptr" /\ stmt.type = "FunctionStatement"
             THEN extractLoop(Panic(g), statements, i + 1, main)
             ELSE IF stmt.kind = "FunctionStatement"
             THEN extractLoop(generateFunctionStatement(g, stmt), statements, i + 1, main)
             ELSE IF stmt.kind = "ExpressionStatement"
                     /\ stmt.expression.kind = "FunctionLiteral"
             THEN extractLoop(
                      [g EXCEPT !.functions = MapSet(@, AnonymousName(g.funcCounter),
                                                     stmt.expression),
                                !.funcCounter = @ + 1],
                      statements, i + 1, main)
             ELSE extractLoop(g, statements, i + 1, Append(main, stmt))

extractFunctions(g, statements) == extractLoop(g, statements, 1, <<>>)

RECURSIVE writeParameters(_, _, _, _)
\* the parameter loop of generateFunctionDeclaration and, with register set,
\* of generateFunctionHeader
writeParameters(g, params, i, register) ==
    IF i > Len(params) THEN g
    ELSE LET g1 == IF i > 1 THEN WriteString(g, ", ") ELSE g
             g2 == WriteChars(WriteString(g1, "int "), params[i].value)
             g3 == IF register
                   THEN [g2 EXCEPT !.variables = MapSet(@, params[i].value, "int")]
                   ELSE g2
         IN  writeParameters(g3, params, i + 1, register)

generateFunctionDeclaration(g, funcName) ==
    LET funcLit == g.functions[funcName]
        g1 == WriteString(WriteChars(WriteString(g, "int "), funcName), "(")
    IN  WriteString(writeParameters(g1, funcLit.parameters, 1, FALSE), ");\n")

RECURSIVE declarationLoop(_, _, _)
\* generateFunctionDeclarations: "for funcName := range cg.functions" visits
\* the keys in the order the map iteration happens to yield, here order
declarationLoop(g, order, i) ==
    IF i > Len(order) THEN g
    ELSE declarationLoop(generateFunctionDeclaration(g, order[i]), order, i + 1)

generateFunctionDeclarations(g, order) == WriteString(declarationLoop(g, order, 1), "\n")

generateFunctionHeader(g, funcName, funcLit) ==
    LET g1 == WriteString(WriteChars(WriteString(g, "int "), funcName), "(")
    IN  WriteString(writeParameters(g1, funcLit.parameters, 1, TRUE), ") {\n")

generateFunctionBody(g, funcName, funcLit) ==
    generateStatements(g, funcLit.body.statements, 1)

hasExplicitReturn(funcLit) ==
    /\ Len(funcLit.body.statements) > 0
    /\ funcLit.body.statements[Len(funcLit.body.statements)].kind = "ReturnStatement"

addDefaultReturnIfNeeded(g, funcName, funcLit) ==
    IF ~hasExplicitReturn(funcLit) THEN WriteString(g, "    return 0;\n") ELSE g

restoreGeneratorState(g, oldVariables, oldFunc) ==
    [g EXCEPT !.variables = oldVariables, !.currentFunc = oldFunc]

generateFunctionDefinition(g, funcName, funcLit) ==
    LET oldVariables == backupVariables(g)
        oldFunc == g.currentFunc
        g1 == [g EXCEPT !.variables = EmptyMap, !.currentFunc = funcLit]
        g2 == generateFunctionHeader(g1, funcName, funcLit)
        g3 == generateFunctionBody(g2, funcName, funcLit)
        g4 == addDefaultReturnIfNeeded(g3, funcName, funcLit)
    IN  restoreGeneratorState(WriteString(g4, "}\n"), oldVariables, oldFunc)

RECURSIVE definitionLoop(_, _, _, _, _)
\* generateFunctionDefinitions: "for funcName, funcLit := range cg.functions".
\* order lists every name the table can ever hold, in the order the map
\* iteration would yield them.  The body of a definition can add entries
\* (generateFunctionStatement); Go leaves open whether an entry created
\* during the iteration is produced: it is skipped if its place in the order
\* has passed, or if it is in skip.  atStart is the key set when the loop began.
definitionLoop(g, order, i, atStart, skip) ==
    IF i > Len(order) \/ g.panicked THEN g
    ELSE LET funcName == order[i]
         IN  IF funcName \in DOMAIN g.functions
                /\ (funcName \in atStart \/ funcName \notin skip)
             THEN definitionLoop(
                      WriteString(generateFunctionDefinition(g, funcName,
                                      g.functions[funcName]), "\n"),
                      order, i + 1, atStart, skip)
             ELSE definitionLoop(g, order, i + 1, atStart, skip)

generateFunctionDefinitions(g, order, skip) ==
    definitionLoop(g, order, 1, DOMAIN g.functions, skip)

generateMainFunction(g, statements) ==
    LET g1 == generateStatements(WriteString(g, "int main() {\n"), statements, 1)
    IN  WriteString(WriteString(g1, "    return 0;\n"), "}\n")

\* Generate's first pass without the reset of cg.variables, cg.functions and
\* cg.funcCounter at entry
GenerateExtractNoReset(g, statements) ==
    LET g0 == [g EXCEPT !.output = <<>>, !.currentFunc = Nil]
        g1 == WriteString(WriteString(WriteString(g0,
                  "#include <stdio.h>\n"), "#include <string.h>\n"), "#include <stdlib.h>\n\n")
    IN  extractFunctions(generateStringConcatHelper(g1), statements)

\* CodeGenerator.Generate up to the end of the first pass (extractFunctions):
\* [g, main]
GenerateExtract(g, statements) ==
    LET g0 == [g EXCEPT !.output = <<>>, !.variables = EmptyMap, !.functions = EmptyMap,
                        !.currentFunc = Nil, !.funcCounter = 0]
        g1 == WriteString(WriteString(WriteString(g0,
                  "#include <stdio.h>\n"), "#include <string.h>\n"), "#include <stdlib.h>\n\n")
    IN  extractFunctions(generateStringConcatHelper(g1), statements)

\* Generate with the definitions written before the forward declarations
GenerateDefinitionsFirst(g, statements, declOrder, defOrder, skip) ==
    LET x == GenerateExtract(g, statements)
        g1 == generateFunctionDefinitions(x.g, defOrder, skip)
        g2 == generateFunctionDeclarations(g1, declOrder)
    IN  IF x.g.panicked THEN x.g
        ELSE IF g2.panicked THEN g2
        ELSE generateMainFunction(g2, x.main)

\* CodeGenerator.Generate: the generator after the call; the text returned is
\* its output.  declOrder, defOrder and skip are the choices the two map
\* iterations make.
Generate(g, statements, declOrder, defOrder, skip) ==
    LET x == GenerateExtract(g, statements)
        g1 == generateFunctionDeclarations(x.g, declOrder)
        g2 == generateFunctionDefinitions(g1, defOrder, skip)
    IN  IF x.g.panicked THEN x.g
        ELSE IF g2.panicked THEN g2
        ELSE generateMainFunction(g2, x.main)

----------------------------------------------------------------------------
(* The inputs: every token sequence up to MaxShort tokens over one token   *)
(* of each kind, and every program made of up to MaxFrags fragments.       *)

MaxShort == 2
MaxFrags == 2
MaxRuns == 2

tVar == Tok("VAR", <<"v", "a", "r">>)
tPrint == Tok("PRINT", <<"p", "r", "i", "n", "t">>)
tIf == Tok("IF", <<"i", "f">>)
tExtern == Tok("EXTERN", <<"e", "x", "t", "e", "r", "n">>)
tFunc == Tok("FUNC", <<"f", "u", "n", "c">>)
tReturn == Tok("RETURN", <<"r", "e", "t", "u", "r", "n">>)
tX == Tok("IDENT", <<"x">>)
tY == Tok("IDENT", <<"y">>)
tF == Tok("IDENT", <<"f">>)
tG == Tok("IDENT", <<"g">>)
tOne == Tok("INT", <<"1">>)
tTwo == Tok("INT", <<"2">>)
tStr == Tok("STRING", <<"s">>)
tAssign == Tok("=", <<"=">>)
tPlus == Tok("+", <<"+">>)
tMinus == Tok("-", <<"-">>)
tStar == Tok("*", <<"*">>)
tSlash == Tok("/", <<"/">>)
tEq == Tok("==", <<"=", "=">>)
tNotEq == Tok("!=", <<"!", "=">>)
tComma == Tok(",", <<",">>)
tSemi == Tok(";", <<";">>)
tLParen == Tok("(", <<"(">>)
tRParen == Tok(")", <<")">>)
tLBrace == Tok("{", <<"{">>)
tRBrace == Tok("}", <<"}">>)
tColon == Tok(":", <<":">>)
tDot == Tok(".", <<".">>)
tEllipsis == Tok("...", <<".", ".", ".">>)
tIllegal == Tok("ILLEGAL", <<"@">>)

Alphabet ==
    {tVar, tPrint, tIf, tExtern, tFunc, tReturn, tX, tF, tOne, tStr, tAssign,
     tPlus, tMinus, tStar, tSlash, tEq, tNotEq, tComma, tSemi, tLParen, tRParen,
     tLBrace, tRBrace, tColon, tDot, tEllipsis, tIllegal, EOFToken}

Fragments ==
    { <<tVar, tX, tAssign, tOne, tSemi>>,                                 \* var x = 1;
      <<tVar, tAssign, tOne, tSemi>>,                                     \* var = 1;
      <<tExtern, tF, tSemi>>,                                             \* extern f;
      <<tExtern, tF, tLParen, tX, tRParen, tSemi>>,                       \* extern f(x);
      <<tFunc, tF, tLParen, tRParen, tLBrace, tReturn, tOne, tSemi, tRBrace>>,
                                                                          \* func f() { return 1; }
      <<tFunc, tG, tLParen, tX, tComma, tY, tRParen, tLBrace, tRBrace>>,  \* func g(x, y) { }
      <<tPrint, tLParen, tX, tRParen, tSemi>>,                            \* print(x);
      <<tPrint, tLParen, tX, tRParen>>,                                   \* print(x)
      <<tLBrace>>,                                                        \* {
      <<tRBrace>>,                                                        \* }
      <<tX, tAssign, tStr, tSemi>>,                                       \* x = "s";
      <<tF, tLParen, tX, tComma, tOne, tRParen, tSemi>>,                  \* f(x, 1);
      <<tF, tLParen, tX, tComma>>,                                        \* f(x,
      <<tFunc, tG, tLParen, tX, tComma>>,                                 \* func g(x,
      <<tX, tPlus>>,                                                      \* x +
      <<tIf, tX, tEq, tOne, tLBrace>>,                                    \* if x == 1 {
      <<tOne, tSemi>>,                                                    \* 1;
      <<tRParen>>,                                                        \* )
      <<tFunc, tF, tLParen, tVar, tRParen, tLBrace, tRBrace>>,            \* func f(var) { }
      <<tVar, tY, tAssign, tLParen, tX, tPlus, tOne, tRParen, tStar, tTwo, tSemi>>,
                                                                          \* var y = (x + 1) * 2;
      <<tLBrace, tLBrace, tRBrace, tRBrace>>,                             \* { { } }
      <<tFunc, tG, tLParen, tRParen, tLBrace,
        tFunc, tF, tLParen, tX, tRParen, tLBrace, tRBrace, tRBrace>>      \* func g() { func f(x) { } }
    }

Seqs(S, n) == UNION {[1..k -> S] : k \in 0..n}

RECURSIVE Flatten(_)
Flatten(ss) == IF ss = <<>> THEN <<>> ELSE Head(ss) \o Flatten(Tail(ss))

\* the operator chains "a op b op c ..." of up to MaxOps operators
MaxOps == 2

Operands == {tX, tOne}
OpTokens == {tPlus, tMinus, tStar, tSlash, tEq, tNotEq}

RECURSIVE Chains(_)
Chains(n) ==
    IF n = 0 THEN {<<a>> : a \in Operands}
    ELSE {c \o <<o, b>> : c \in Chains(n - 1), o \in OpTokens, b \in Operands}

\* var y = a op b op c ...;
ExprInputs ==
    {<<tVar, tY, tAssign>> \o c \o <<tSemi>> : c \in UNION {Chains(k) : k \in 0..MaxOps}}

Inputs ==
    Seqs(Alphabet, MaxShort) \cup {Flatten(fs) : fs \in Seqs(Fragments, MaxFrags)}
        \cup ExprInputs

Perms(S) == {o \in [1..Cardinality(S) -> S] : \A i, j \in 1..Cardinality(S) : o[i] = o[j] => i = j}

RECURSIVE FunctionNames(_, _)
\* the names of the function declarations among the statements stmts[i..]
\* and in the blocks, if bodies and function bodies below them
FunctionNames(stmts, i) ==
    IF i > Len(stmts) THEN {}
    ELSE LET s == stmts[i]
             here == CASE s.kind = "FunctionStatement" ->
                              {s.name} \cup FunctionNames(s.body.statements, 1)
                       [] s.kind = "BlockStatement" -> FunctionNames(s.statements, 1)
                       [] s.kind = "IfStatement" -> FunctionNames(s.consequence.statements, 1)
                       [] OTHER -> {}
         IN  here \cup FunctionNames(stmts, i + 1)

----------------------------------------------------------------------------
(* The pipeline                                                            *)

\* source texts "var x = d;" for the digit runs d of up to MaxDigits digits
MaxDigits == 3

VarPrefix == <<"v", "a", "r", " ", "x", " ", "=", " ">>

DigitRuns == Seqs({"0", "1", "8"}, MaxDigits) \ {<<>>}

NumberSources == {<<VarPrefix, d, <<";">>>> : d \in DigitRuns}

\* the parser is handed either a token sequence, or the tokens the lexer
\* makes of a source text
Init ==
    /\ \/ src = <<>> /\ tokens \in Inputs
       \/ src \in NumberSources /\ tokens = Tokenize(Flatten(src))
    /\ lexer = NewLexer(Flatten(src))
    /\ lexed = <<>>
    /\ pos = 1
    /\ errors = <<>>
    /\ program = <<>>
    /\ stuck = FALSE
    /\ pc = "parse"
    /\ cg = NewGenerator
    /\ runs = <<>>

ParserState == [pos |-> pos, errors |-> errors, stuck |-> stuck]

\* the loop body of Parser.ParseProgram with its "p.nextToken()" left out
appendStatementNoAdvance(r) ==
    /\ program' = IF ~IsNil(r.node) THEN Append(program, r.node) ELSE program
    /\ pos' = r.p.pos
    /\ errors' = r.p.errors
    /\ stuck' = (r.p.stuck \/ (r.p.pos <= pos /\ ~curTokenIs(r.p, "EOF")))

\* the body of the loop of Parser.ParseProgram after stmt := p.parseStatement():
\* r is the statement with the parser state parseStatement left
appendStatement(r) ==
    LET p2 == IF ~curTokenIs(r.p, "EOF") THEN nextToken(r.p) ELSE r.p
    IN  /\ program' = IF ~IsNil(r.node) THEN Append(program, r.node) ELSE program
        /\ pos' = p2.pos
        /\ errors' = p2.errors
        /\ stuck' = (p2.stuck \/ (p2.pos <= pos /\ ~curTokenIs(p2, "EOF")))

\* one iteration of the loop of Parser.ParseProgram
ParseProgramStep ==
    /\ pc = "parse"
    /\ TokAt(pos).type # "EOF"
    /\ appendStatement(p_parseStatement(ParserState))
    /\ UNCHANGED <<tokens, pc, cg, runs, src, lexer, lexed>>

\* Parser.ParseProgram leaves its loop and returns the program
ParseProgramReturn ==
    /\ pc = "parse"
    /\ TokAt(pos).type = "EOF"
    /\ pc' = "parsed"
    /\ UNCHANGED <<tokens, pos, errors, program, stuck, cg, runs, src, lexer, lexed>>

\* the driver: any diagnostic suppresses code generation
CanGenerate == Len(errors) = 0

Reject ==
    /\ pc = "parsed"
    /\ ~CanGenerate
    /\ pc' = "rejected"
    /\ UNCHANGED <<tokens, pos, errors, program, stuck, cg, runs, src, lexer, lexed>>

\* a call of CodeGenerator.Generate on the parsed program
GenerateCall ==
    /\ pc \in {"parsed", "generated"}
    /\ CanGenerate
    /\ Len(runs) < MaxRuns
    /\ LET x == GenerateExtract(cg, program)
           atStart == DOMAIN x.g.functions
           all == atStart \cup FunctionNames(program, 1)
       IN  \E declOrder \in Perms(atStart), defOrder \in Perms(all),
              skip \in SUBSET (all \ atStart) :
               LET g == Generate(cg, program, declOrder, defOrder, skip)
               IN  /\ cg' = g
                   /\ IF g.panicked
                      THEN pc' = "panic" /\ runs' = runs
                      ELSE pc' = "generated" /\ runs' = Append(runs, g.output)
    /\ UNCHANGED <<tokens, pos, errors, program, stuck, src, lexer, lexed>>

Next == ParseProgramStep \/ ParseProgramReturn \/ Reject \/ GenerateCall

Spec == Init /\ [][Next]_vars

----------------------------------------------------------------------------
(* The lexer on its own: NextToken called again and again on a source text *)

MaxSrc == 3
MaxPieces == 3
MaxEOFCalls == 2

Chars == {"a", "1", "0", " ", "\n", "/", "*", "\"", "=", "!", ".", ";", "@", NUL}

\* texts of one token each
TokenTexts == {<<"a">>, <<"1">>, <<"=">>, <<"/">>, <<"\"", "s", "\"">>}

\* white space and comments
Trivia ==
    {<<" ">>, <<"\n">>, <<"/", "/", "c", "\n">>, <<"/", "*", "c", "*", "/">>,
     <<"/", "/", NUL, "\n">>, <<"/", "*", NUL, "*", "/">>}

LexSources ==
    Seqs({<<c>> : c \in Chars}, MaxSrc) \cup Seqs(TokenTexts \cup Trivia, MaxPieces)

LexInit ==
    /\ src \in LexSources
    /\ lexer = NewLexer(Flatten(src))
    /\ lexed = <<>>
    /\ tokens = <<>>
    /\ pos = 1
    /\ errors = <<>>
    /\ program = <<>>
    /\ stuck = FALSE
    /\ pc = "lex"
    /\ cg = NewGenerator
    /\ runs = <<>>

\* the calls made with the cursor at or past the end of the input
CallsAtEnd == {i \in 1..Len(lexed) : lexed[i].before >= Len(lexer.input)}

\* a call of Lexer.NextToken
NextTokenCall ==
    /\ pc = "lex"
    /\ Cardinality(CallsAtEnd) < MaxEOFCalls
    /\ LET r == NextToken(lexer)
       IN  /\ lexer' = r.l
           /\ lexed' = Append(lexed, [tok |-> r.tok, before |-> lexer.position,
                                      after |-> r.l.position])
    /\ UNCHANGED <<tokens, pos, errors, program, stuck, pc, cg, runs, src>>

LexNext == NextTokenCall

LexSpec == LexInit /\ [][LexNext]_vars

----------------------------------------------------------------------------
(* The generator on its own: Generate taken in steps (first pass and       *)
(* forward declarations, the definitions, then the statements of the entry *)
(* point one after the other).  A program is up to two var statements that *)
(* give x and y a type, then one statement holding an expression; or a     *)
(* block, an if or a function declaration with statements inside.          *)

StringLiteral(v) == [kind |-> "StringLiteral", value |-> v]
IntegerLiteral(n) == [kind |-> "IntegerLiteral", value |-> n]
InfixExpression(op, l, r) ==
    [kind |-> "InfixExpression", operator |-> op, left |-> l, right |-> r]
FunctionCall(f, args) == [kind |-> "FunctionCall", function |-> f, arguments |-> args]
LetStatement(name, e) == [kind |-> "LetStatement", name |-> name, value |-> e]
AssignmentStatement(name, e) == [kind |-> "AssignmentStatement", name |-> name, value |-> e]
PrintStatement(e) == [kind |-> "PrintStatement", value |-> e]
IfStatement(e) ==
    [kind |-> "IfStatement", condition |-> e,
     consequence |-> [kind |-> "BlockStatement", statements |-> <<>>]]
ReturnStatement(e) == [kind |-> "ReturnStatement", value |-> e]
ExpressionStatement(e) == [kind |-> "ExpressionStatement", expression |-> e]
BlockStatement(stmts) == [kind |-> "BlockStatement", statements |-> stmts]
IfStatementWith(e, stmts) ==
    [kind |-> "IfStatement", condition |-> e, consequence |-> BlockStatement(stmts)]
FunctionStatement(name, params, stmts) ==
    [kind |-> "FunctionStatement", name |-> name, parameters |-> params,
     body |-> BlockStatement(stmts)]
FunctionLiteral(params, stmts) ==
    [kind |-> "FunctionLiteral", parameters |-> params, body |-> BlockStatement(stmts)]

\* the operands: "s", 1, x, y and the concatenation "s" + "t"
GenOperands ==
    {StringLiteral(<<"s">>), IntegerLiteral(1), Identifier(tX), Identifier(tY),
     InfixExpression(<<"+">>, StringLiteral(<<"s">>), StringLiteral(<<"t">>))}

GenExprs ==
    {InfixExpression(op, l, r) :
        op \in {<<"+">>, <<"=", "=">>, <<"!", "=">>}, l \in GenOperands, r \in GenOperands}

\* var v;  var v = 1;  var v = "Hi, ";  or nothing
GenDecls(v) ==
    {<<>>, <<LetStatement(v, IntegerLiteral(1))>>,
     <<LetStatement(v, StringLiteral(<<"H", "i", ",", " ">>))>>}

\* the statements an expression can stand in
GenContexts(e) ==
    {LetStatement(<<"z">>, e), LetStatement(<<"x">>, e),
     AssignmentStatement(<<"z">>, e), AssignmentStatement(<<"x">>, e),
     PrintStatement(e), IfStatement(e), ReturnStatement(e),
     ExpressionStatement(FunctionCall(Identifier(tF), <<IntegerLiteral(1), e>>))}

\* the expressions a statement can consist of: the operands, x + "s",
\* "s" + x, the call f(1), a function literal and the absent expression
BareExprs ==
    GenOperands \cup
    {InfixExpression(<<"+">>, Identifier(tX), StringLiteral(<<"s">>)),
     InfixExpression(<<"+">>, StringLiteral(<<"s">>), Identifier(tX)),
     FunctionCall(Identifier(tF), <<IntegerLiteral(1)>>),
     FunctionLiteral(<<>>, <<>>), Nil}

\* e;   print(e);   x = e;   var z = e;   f(1, e);
BareContexts(e) ==
    {ExpressionStatement(e), PrintStatement(e), AssignmentStatement(<<"x">>, e),
     LetStatement(<<"z">>, e),
     ExpressionStatement(FunctionCall(Identifier(tF), <<IntegerLiteral(1), e>>))}

\* the statements inside a block, an if or a function body: a var that
\* redeclares x, an assignment that declares y, a var, a nested block, a
\* nested if, a nested function declaration
InnerStmts ==
    {LetStatement(<<"x">>, StringLiteral(<<"s">>)),
     LetStatement(<<"x">>, IntegerLiteral(1)),
     AssignmentStatement(<<"y">>, StringLiteral(<<"s">>)),
     LetStatement(<<"y">>, IntegerLiteral(1)),
     BlockStatement(<<LetStatement(<<"y">>, IntegerLiteral(1))>>),
     IfStatementWith(IntegerLiteral(1), <<LetStatement(<<"y">>, StringLiteral(<<"s">>))>>),
     FunctionStatement(<<"h">>, <<>>, <<>>)}

MaxInner == 2

\* { body }   if x == 1 { body }   func f(x) { body }   func g() { body }
Constructs(body) ==
    {BlockStatement(body),
     IfStatementWith(InfixExpression(<<"=", "=">>, Identifier(tX), IntegerLiteral(1)), body),
     FunctionStatement(<<"f">>, <<Identifier(tX)>>, body),
     FunctionStatement(<<"g">>, <<>>, body)}

\* what follows the construct: nothing, print(y); or print(x);
Afterwards ==
    {<<>>, <<PrintStatement(Identifier(tY))>>, <<PrintStatement(Identifier(tX))>>}

ScopePrograms ==
    {dx \o <<c>> \o a :
        dx \in GenDecls(<<"x">>),
        c \in UNION {Constructs(body) : body \in Seqs(InnerStmts, MaxInner)},
        a \in Afterwards}

\* func f() { var x ...; e; }: an expression statement in a function body
BodyPrograms ==
    {<<FunctionStatement(<<"f">>, <<>>, dx \o <<ExpressionStatement(e)>>)>> :
        dx \in GenDecls(<<"x">>), e \in BareExprs}

GenPrograms ==
    {dx \o dy \o <<s>> :
        dx \in GenDecls(<<"x">>), dy \in GenDecls(<<"y">>),
        s \in UNION {GenContexts(e) : e \in GenExprs}
                \cup UNION {BareContexts(e) : e \in BareExprs}}
    \cup ScopePrograms \cup BodyPrograms

GenInit ==
    /\ program \in GenPrograms
    /\ pos = 1
    /\ cg = NewGenerator
    /\ pc = "begin"
    /\ tokens = <<>>
    /\ errors = <<>>
    /\ stuck = FALSE
    /\ runs = <<>>
    /\ src = <<>>
    /\ lexer = NewLexer(<<>>)
    /\ lexed = <<>>

\* the names declared in the bodies of the functions of the table
NestedNames(g) ==
    UNION {FunctionNames(g.functions[n].body.statements, 1) : n \in DOMAIN g.functions}

\* Generate up to the forward declarations; program becomes mainStatements
GenerateBegin ==
    /\ pc = "begin"
    /\ LET x == GenerateExtract(cg, program)
       IN  /\ \E declOrder \in Perms(DOMAIN x.g.functions) :
                  cg' = generateFunctionDeclarations(x.g, declOrder)
           /\ program' = x.main
    /\ pc' = "define"
    /\ UNCHANGED <<tokens, pos, errors, stuck, runs, src, lexer, lexed>>

\* cg.generateFunctionDefinitions()
EmitDefinitions ==
    /\ pc = "define"
    /\ LET atStart == DOMAIN cg.functions
           all == atStart \cup NestedNames(cg)
       IN  \E defOrder \in Perms(all), skip \in SUBSET (all \ atStart) :
               cg' = generateFunctionDefinitions(cg, defOrder, skip)
    /\ pc' = "main"
    /\ UNCHANGED <<tokens, pos, errors, program, stuck, runs, src, lexer, lexed>>

\* generateMainFunction: the opening line
BeginMain ==
    /\ pc = "main"
    /\ cg' = WriteString(cg, "int main() {\n")
    /\ pc' = "emit"
    /\ UNCHANGED <<tokens, pos, errors, program, stuck, runs, src, lexer, lexed>>

\* one iteration of "for _, stmt := range statements { cg.generateStatement(stmt) }"
EmitStatement ==
    /\ pc = "emit"
    /\ pos <= Len(program)
    /\ cg' = generateStatement(cg, program[pos])
    /\ pos' = pos + 1
    /\ UNCHANGED <<tokens, errors, program, stuck, pc, runs, src, lexer, lexed>>

\* generateMainFunction: the closing lines; Generate returns the text
EndMain ==
    /\ pc = "emit"
    /\ pos > Len(program)
    /\ cg' = WriteString(WriteString(cg, "    return 0;\n"), "}\n")
    /\ pc' = "returned"
    /\ runs' = Append(runs, cg'.output)
    /\ UNCHANGED <<tokens, pos, errors, program, stuck, src, lexer, lexed>>

GenNext == GenerateBegin \/ EmitDefinitions \/ BeginMain \/ EmitStatement \/ EndMain

GenSpec == GenInit /\ [][GenNext]_vars

----------------------------------------------------------------------------
(* The claims                                                              *)

Parsed == pc # "parse"

\* C1: whenever ParseProgram leaves the diagnostic list empty, Generate
\* applied to the resulting Program runs to completion and returns C text:
\* no call of Generate ends in a run-time panic
C1_GenerateCompletes == pc # "panic" /\ ~cg.panicked

\* the valid programs among the inputs: sequences of complete statements
ValidFragments ==
    { <<tVar, tX, tAssign, tOne, tSemi>>,
      <<tExtern, tF, tSemi>>,
      <<tFunc, tF, tLParen, tRParen, tLBrace, tReturn, tOne, tSemi, tRBrace>>,
      <<tFunc, tG, tLParen, tX, tComma, tY, tRParen, tLBrace, tRBrace>>,
      <<tPrint, tLParen, tX, tRParen, tSemi>>,
      <<tX, tAssign, tStr, tSemi>>,
      <<tF, tLParen, tX, tComma, tOne, tRParen, tSemi>>,
      <<tVar, tY, tAssign, tLParen, tX, tPlus, tOne, tRParen, tStar, tTwo, tSemi>> }

ValidInput == tokens \in {Flatten(fs) : fs \in Seqs(ValidFragments, MaxFrags)}

\* C2: ParseProgram followed by Generate is deterministic: for a valid
\* program, any two runs of Generate on the parsed input return the same C text
C2_Deterministic == ValidInput => \A i, j \in 1..Len(runs) : runs[i] = runs[j]

\* --- reading emitted C text -------------------------------------------
\* The tokens of a piece of emitted C: " " separates, "(" and ")" stand
\* alone, every other run of characters is one token.
RECURSIVE CTokens(_, _, _, _)
CTokens(out, i, cur, acc) ==
    LET flush == IF cur = <<>> THEN acc ELSE Append(acc, cur)
    IN  IF i > Len(out) THEN flush
        ELSE IF out[i] = " " THEN CTokens(out, i + 1, <<>>, flush)
        ELSE IF out[i] \in {"(", ")"} THEN CTokens(out, i + 1, <<>>, Append(flush, <<out[i]>>))
        ELSE CTokens(out, i + 1, Append(cur, out[i]), acc)

\* C's binary operator precedence (0: not a binary operator of the language)
CPrec(tok) ==
    CASE tok \in {<<"*">>, <<"/">>} -> 3
      [] tok \in {<<"+">>, <<"-">>} -> 2
      [] tok \in {<<"=", "=">>, <<"!", "=">>} -> 1
      [] OTHER -> 0

Leaf(text) == [leaf |-> text]
Node(op, l, r) == [op |-> op, left |-> l, right |-> r]

\* C's reading of a token list: precedence climbing, left associative
RECURSIVE ReadC(_, _, _)
ReadPrimary(toks, i) ==
    IF toks[i] = <<"(">>
    THEN LET r == ReadC("expr", toks, <<i + 1, 1>>)
         IN  [tree |-> r.tree, next |-> r.next + 1]
    ELSE [tree |-> Leaf(toks[i]), next |-> i + 1]

ReadRest(toks, left, i, minPrec) ==
    IF i > Len(toks) \/ CPrec(toks[i]) = 0 \/ CPrec(toks[i]) < minPrec
    THEN [tree |-> left, next |-> i]
    ELSE LET r == ReadC("expr", toks, <<i + 1, CPrec(toks[i]) + 1>>)
         IN  ReadC("rest", toks, <<Node(toks[i], left, r.tree), r.next, minPrec>>)

ReadC(what, toks, a) ==
    IF what = "expr"
    THEN LET l == ReadPrimary(toks, a[1]) IN ReadRest(toks, l.tree, l.next, a[2])
    ELSE ReadRest(toks, a[1], a[2], a[3])

ReadCText(out) == ReadC("expr", CTokens(out, 1, <<>>, <<>>), <<1, 1>>).tree

RECURSIVE IsArith(_)
\* an expression built from integer literals, identifiers and the binary
\* operators
IsArith(e) ==
    CASE e.kind \in {"Identifier", "IntegerLiteral"} -> TRUE
      [] e.kind = "InfixExpression" -> IsArith(e.left) /\ IsArith(e.right)
      [] OTHER -> FALSE

RECURSIVE AstTree(_)
\* the operator tree of a parsed expression
AstTree(e) ==
    CASE e.kind = "Identifier" -> Leaf(e.value)
      [] e.kind = "IntegerLiteral" -> Leaf(FormatInt(e.value))
      [] e.kind = "InfixExpression" -> Node(e.operator, AstTree(e.left), AstTree(e.right))

EmittedText(e) == generateExpression(NewGenerator, e).output

\* C3: for every arithmetic expression the parser built (here: the value of
\* a var statement), the C text the generator emits for it, read with C
\* precedence and left associativity, is the operator tree of the AST
C3_EmittedTreeIsAst ==
    \A i \in 1..Len(program) :
        (program[i].kind = "LetStatement" /\ IsArith(program[i].value))
            => ReadCText(EmittedText(program[i].value)) = AstTree(program[i].value)

\* C4: ParseProgram terminates on every token sequence: every iteration of
\* its loop, and of the loops of the parse functions it calls, consumes at
\* least one token of the finite input (the position only moves forward, up
\* to the end of input), and at end of input the Program is returned
C4_ParseTerminates ==
    [][pc = "parse" =>
          /\ ~stuck'
          /\ \/ pc' = "parse" /\ pos < pos' /\ pos' <= Len(tokens) + 1
             \/ pc' = "parsed" /\ TokAt(pos).type = "EOF" /\ program' = program]_vars

\* a malformed input (diagnostics, an unclosed block) parsed to its end
C4_Witness ==
    /\ pc = "parsed" /\ ~stuck /\ Len(errors) > 0
    /\ pos = Len(tokens) + 1
    /\ \E i \in 1..Len(tokens) : tokens[i].type = "{"
    /\ \A i \in 1..Len(tokens) : tokens[i].type # "}"

\* the end of the input: the first EOF token
RECURSIVE FirstEOF(_)
FirstEOF(i) == IF TokAt(i).type = "EOF" THEN i ELSE FirstEOF(i + 1)

\* the occurrences of var not followed by an identifier
MalformedVars ==
    {i \in 1..(FirstEOF(1) - 1) : tokens[i].type = "VAR" /\ TokAt(i + 1).type # "IDENT"}

\* the diagnostics "expected next token to be IDENT, got ..."
ExpectedIdent ==
    {i \in 1..Len(errors) : errors[i].kind = "peekError" /\ errors[i].expected = "IDENT"}

\* C5: after ParseProgram, an input with k occurrences of var not followed
\* by an identifier has at least k diagnostics "expected ... IDENT, got ..."
C5_VarDiagnostics == Parsed => Cardinality(ExpectedIdent) >= Cardinality(MalformedVars)

RECURSIVE Constructed(_), AllConstructed(_, _)
\* the statement is a constructed node, and so is every statement under it
Constructed(s) ==
    CASE s.kind = "nilptr" -> FALSE
      [] s.kind = "BlockStatement" -> AllConstructed(s.statements, 1)
      [] s.kind = "IfStatement" -> Constructed(s.consequence)
      [] s.kind = "FunctionStatement" -> Constructed(s.body)
      [] OTHER -> TRUE
AllConstructed(stmts, i) ==
    i > Len(stmts) \/ (Constructed(stmts[i]) /\ AllConstructed(stmts, i + 1))

\* C6: a statement parser that aborts contributes no element: every element
\* of Program.Statements, and of every block under it, is a constructed
\* statement node
C6_NoAbsentElements == AllConstructed(program, 1)

\* the token kinds with neither a statement rule nor a prefix rule
NoRuleTypes ==
    {"ILLEGAL", ")", "}", ",", ":", ".", "...", "=", "+", "-", "*", "/", "==", "!="}

\* C7: an input whose first token (a statement position) has no statement
\* rule and no prefix rule ends ParseProgram with a diagnostic
C7_NoRuleDiagnostic ==
    (Parsed /\ Len(tokens) >= 1 /\ tokens[1].type \in NoRuleTypes) => Len(errors) > 0

\* C8: an input that opens a block with its first token and holds no
\* closing brace (end of input comes before the block's matching brace) ends
\* ParseProgram with a diagnostic
C8_UnterminatedDiagnostic ==
    (Parsed /\ Len(tokens) >= 1 /\ tokens[1].type = "{"
            /\ \A i \in 1..Len(tokens) : tokens[i].type # "}")
        => Len(errors) > 0

\* C9: an input that starts with an extern statement that is not exactly
\* extern, identifier, semicolon ends ParseProgram with a diagnostic
C9_ExternDiagnostic ==
    (Parsed /\ Len(tokens) >= 1 /\ tokens[1].type = "EXTERN"
            /\ ~(TokAt(2).type = "IDENT" /\ TokAt(3).type = ";"))
        => Len(errors) > 0

\* C10: a statement that is an integer or string literal followed by a
\* semicolon (here: the first statement of the input) is parsed as an
\* expression and appended as an ExpressionStatement
C10_LiteralStatement ==
    (Parsed /\ Len(tokens) >= 2 /\ tokens[1].type \in {"INT", "STRING"}
            /\ tokens[2].type = ";")
        => (Len(program) >= 1 /\ program[1].kind = "ExpressionStatement"
            /\ program[1].expression.kind \in {"IntegerLiteral", "StringLiteral"})

RECURSIVE BraceDepth(_, _)
\* the nesting depth after the tokens i..j (an opening brace adds one, a
\* closing brace takes one off)
BraceDepth(i, j) ==
    IF j < i THEN 0
    ELSE BraceDepth(i, j - 1) + (IF tokens[j].type = "{" THEN 1
                                 ELSE IF tokens[j].type = "}" THEN -1 ELSE 0)

\* the braces of the input are well nested
WellNested ==
    /\ BraceDepth(1, Len(tokens)) = 0
    /\ \A j \in 1..Len(tokens) : BraceDepth(1, j) >= 0

\* the closing brace that matches the opening brace at i
MatchingBrace(i) ==
    CHOOSE j \in i..Len(tokens) :
        BraceDepth(i, j) = 0 /\ \A k \in i..(j - 1) : BraceDepth(i, k) > 0

\* C11: a block stops at its matching close brace: on an input with well
\* nested braces, the iteration of ParseProgram that parses a block statement
\* ends just after the brace matching the block's opening brace, so that the
\* statements after it belong to the enclosing construct
C11_BlockStopsAtMatch ==
    [][(pc = "parse" /\ pc' = "parse" /\ TokAt(pos).type = "{" /\ WellNested)
          => pos' = MatchingBrace(pos) + 1]_vars

\* the literals of the operator chain of an input "var y = chain;"
ChainLits == [i \in 1..(Len(tokens) - 4) |-> tokens[i + 3].lit]

\* C12: an operator chain parses to the tree that precedence (== != below
\* + - below * /) and left associativity give: a - b - c is ((a - b) - c),
\* a + b * c is (a + (b * c)), a * b + c is ((a * b) + c), a == b + c is
\* (a == (b + c))
C12_PrecedenceTree ==
    (Parsed /\ tokens \in ExprInputs) =>
        /\ Len(program) = 1 /\ program[1].kind = "LetStatement"
        /\ IsArith(program[1].value)
        /\ AstTree(program[1].value) = ReadC("expr", ChainLits, <<1, 1>>).tree
        /\ Len(ChainLits) = 5 =>
              LET a == Leaf(ChainLits[1])
                  b == Leaf(ChainLits[3])
                  c == Leaf(ChainLits[5])
                  op1 == ChainLits[2]
                  op2 == ChainLits[4]
              IN  AstTree(program[1].value) =
                      IF CPrec(op1) < CPrec(op2) THEN Node(op1, a, Node(op2, b, c))
                      ELSE Node(op2, Node(op1, a, b), c)

\* x - 1 - 1 parsed as ((x - 1) - 1) and x == 1 + 1 as (x == (1 + 1))
C12_Witness ==
    /\ Parsed
    /\ \/ /\ tokens = <<tVar, tY, tAssign, tX, tMinus, tOne, tMinus, tOne, tSemi>>
          /\ AstTree(program[1].value) =
                 Node(<<"-">>, Node(<<"-">>, Leaf(<<"x">>), Leaf(<<"1">>)), Leaf(<<"1">>))
       \/ /\ tokens = <<tVar, tY, tAssign, tX, tEq, tOne, tPlus, tOne, tSemi>>
          /\ AstTree(program[1].value) =
                 Node(<<"=", "=">>, Leaf(<<"x">>), Node(<<"+">>, Leaf(<<"1">>), Leaf(<<"1">>)))

\* strconv's base 10 reading of a digit run
DecimalValue(d) == DigitsValue(d, 10, 0)

\* C13: integer literals are decimal: for the source text "var x = d;" with
\* d a digit run (leading zeros included), the lexer makes d one INT token,
\* no diagnostic is recorded, the IntegerLiteral holds the base 10 value of
\* d and the number emitted in the C text is that value
C13_DecimalLiteral ==
    (Parsed /\ src \in NumberSources) =>
        /\ Len(tokens) = 5 /\ tokens[4] = Tok("INT", src[2])
        /\ errors = <<>>
        /\ Len(program) = 1 /\ program[1].kind = "LetStatement"
        /\ program[1].value.kind = "IntegerLiteral"
        /\ program[1].value.value = DecimalValue(src[2])
        /\ EmittedText(program[1].value) = FormatInt(DecimalValue(src[2]))

\* the closed set of token kinds (ast.go)
TokenTypes ==
    {"ILLEGAL", "EOF", "IDENT", "INT", "STRING", "=", "+", "-", "*", "/", "==", "!=",
     ",", ";", "(", ")", "{", "}", ":", ".", "...",
     "PRINT", "VAR", "IF", "EXTERN", "FUNC", "RETURN"}

\* C14: the tokenizer never halts and end of input is absorbing: every call
\* of NextToken returns a token; a call that returns a token other than EOF
\* moves the byte cursor forward by at least one, so that on an input of n
\* bytes at most n calls come before the first EOF; and every call made with
\* the cursor at or past the end of the input returns the EOF token
C14_EOFAbsorbing ==
    LET n == Len(lexer.input)
    IN  \A i \in 1..Len(lexed) :
            /\ lexed[i].tok.type \in TokenTypes
            /\ lexed[i].tok.type # "EOF" => lexed[i].after >= lexed[i].before + 1
            /\ lexed[i].before >= n => lexed[i].tok = EOFToken
            /\ (\A j \in 1..i : lexed[j].tok.type # "EOF") => i <= n

\* a source text with a comment lexed to its end and beyond: tokens, then
\* EOF twice
C14_Witness ==
    /\ pc = "lex"
    /\ \E k \in 1..Len(src) : src[k] = <<"/", "*", "c", "*", "/">>
    /\ Len(lexed) >= 3
    /\ lexed[1].tok.type \notin {"EOF", "ILLEGAL"}
    /\ lexed[Len(lexed) - 1].tok = EOFToken
    /\ lexed[Len(lexed)].tok = EOFToken
    /\ lexed[Len(lexed)].before > Len(lexer.input)

\* the source text is tokens with white space and comments between them:
\* every piece is a token text or a piece of white space or comment, two
\* token texts are not written side by side, and a comment does not start
\* right after the token "/" (there the "/" would be part of the comment
\* opener, not the SLASH token)
TokensAndTrivia ==
    /\ \A k \in 1..Len(src) : src[k] \in TokenTexts \cup Trivia
    /\ \A k \in 1..(Len(src) - 1) :
          /\ ~(src[k] \in TokenTexts /\ src[k + 1] \in TokenTexts)
          /\ ~(src[k] = <<"/">> /\ Head(src[k + 1]) = "/")

RECURSIVE TokensOfTexts(_)
\* the tokens of the token texts of the source from piece k on, each lexed
\* on its own
TokensOfTexts(k) ==
    IF k > Len(src) THEN <<>>
    ELSE (IF src[k] \in TokenTexts THEN Tokenize(src[k]) ELSE <<>>) \o TokensOfTexts(k + 1)

\* the calls that reached the end of the input
EndCalls ==
    {i \in 1..Len(lexed) : lexed[i].tok.type = "EOF" /\ lexed[i].after > Len(lexer.input)}

\* the tokens returned before the end of the input was reached
ReturnedTokens ==
    LET first == CHOOSE i \in EndCalls : \A j \in EndCalls : i <= j
    IN  [i \in 1..(first - 1) |-> lexed[i].tok]

\* C15: comments and white space are transparent: for a source text made of
\* tokens with spaces, newlines, line comments and block comments between
\* them, before the first and after the last, NextToken returns the tokens
\* of the token texts and nothing else before the end of the input
C15_TriviaTransparent ==
    (EndCalls # {} /\ TokensAndTrivia) => ReturnedTokens = TokensOfTexts(1)

\* the same for source texts without a zero byte
C15_NoZeroByte ==
    (EndCalls # {} /\ TokensAndTrivia /\ \A k \in 1..Len(src) : \A i \in 1..Len(src[k]) : src[k][i] # NUL)
        => ReturnedTokens = TokensOfTexts(1)

\* programs an earlier call of Generate was given:
\*   var x = "s"; func f(x) { return x; }     and     func() { };
EarlierPrograms ==
    { << [kind |-> "LetStatement", name |-> <<"x">>,
          value |-> [kind |-> "StringLiteral", value |-> <<"s">>]],
         [kind |-> "FunctionStatement", name |-> <<"f">>,
          parameters |-> <<Identifier(tX)>>,
          body |-> [kind |-> "BlockStatement",
                    statements |-> <<[kind |-> "ReturnStatement",
                                      value |-> Identifier(tX)]>>]] >>,
      << [kind |-> "ExpressionStatement",
          expression |-> [kind |-> "FunctionLiteral", parameters |-> <<>>,
                          body |-> [kind |-> "BlockStatement", statements |-> <<>>]]] >> }

\* the generators a call of Generate can find: the one left by the calls so
\* far, and those left by a call on an earlier program
UsedGenerators ==
    {cg} \cup
    UNION {{Generate(NewGenerator, q, o, o, {}) :
               o \in Perms(DOMAIN GenerateExtract(NewGenerator, q).g.functions)} :
           q \in EarlierPrograms}

\* C16: Generate starts from empty state on every call: on the parsed
\* program, a call on a generator that has already run Generate returns, for
\* the same choices of the map iterations, the text a fresh generator
\* returns, and leaves the same variable types, function table, current
\* function and counter
C16_GenerateResets ==
    (Parsed /\ CanGenerate /\ ~cg.panicked) =>
        LET x == GenerateExtract(NewGenerator, program)
            atStart == DOMAIN x.g.functions
            all == atStart \cup FunctionNames(program, 1)
        IN  \A g \in UsedGenerators :
            \A declOrder \in Perms(atStart), defOrder \in Perms(all),
               skip \in SUBSET (all \ atStart) :
                Generate(g, program, declOrder, defOrder, skip)
                    = Generate(NewGenerator, program, declOrder, defOrder, skip)

\* Generate has run twice on a program that declares a variable and a
\* function: the second call found the table entries of the first
C16_Witness ==
    /\ pc = "generated" /\ Len(runs) = 2
    /\ DOMAIN cg.variables # {} /\ DOMAIN cg.functions # {}
    /\ \E g \in UsedGenerators : g.funcCounter > 0
    /\ \E g \in UsedGenerators : \E v \in DOMAIN g.variables : g.variables[v] = "string"

\* --- reading the emitted program -------------------------------------
RECURSIVE ParamText(_, _)
\* the C parameter list "int a, int b" of the parameters from i on
ParamText(params, i) ==
    IF i > Len(params) THEN <<>>
    ELSE (IF i > 1 THEN <<", ">> ELSE <<>>) \o <<"int ">> \o params[i].value
             \o ParamText(params, i + 1)

\* "int name(", the start of a declaration and of a definition of name
NameText(f) == <<"int ">> \o f.name \o <<"(">>
\* the forward declaration and the first line of the definition of f
DeclText(f) == NameText(f) \o ParamText(f.parameters, 1) \o <<");\n">>
DefText(f) == NameText(f) \o ParamText(f.parameters, 1) \o <<") {\n">>

\* the places where text occurs in out
Occurrences(text, out) ==
    {k \in 1..(Len(out) - Len(text) + 1) : SubSeq(out, k, k + Len(text) - 1) = text}

IsFunction(s) == s.kind = "FunctionStatement"
IsNotFunction(s) == s.kind # "FunctionStatement"

TopFunctions == {program[i] : i \in {j \in 1..Len(program) : IsFunction(program[j])}}

\* the emission order holds of the text out
EmissionOrder(out) ==
    LET mains == Occurrences(<<"int main() {\n">>, out)
    IN  /\ Cardinality(mains) = 1
        /\ \A f \in TopFunctions :
              /\ Cardinality(Occurrences(NameText(f), out)) = 2
              /\ Cardinality(Occurrences(DeclText(f), out)) = 1
              /\ Cardinality(Occurrences(DefText(f), out)) = 1
        /\ \A f, h \in TopFunctions :
              \A d \in Occurrences(DeclText(f), out), e \in Occurrences(DefText(h), out) :
                  d < e /\ \A m \in mains : e < m
        /\ \A m \in mains :
              SubSeq(out, m + 1, Len(out)) =
                  generateStatements(NewGenerator, SelectSeq(program, IsNotFunction), 1).output
                      \o <<"    return 0;\n", "}\n">>

\* C17: in every text Generate returns, each top-level function declaration
\* has exactly one forward declaration and exactly one definition with its
\* name and parameter list (all int), every forward declaration comes before
\* every definition, every definition before main, and main holds the other
\* top-level statements in source order
C17_EmissionOrder == \A k \in 1..Len(runs) : EmissionOrder(runs[k])

RECURSIVE FunctionNameList(_, _)
\* the names of the function declarations among the statements stmts[i..]
\* and below them, one entry for each declaration
FunctionNameList(stmts, i) ==
    IF i > Len(stmts) THEN <<>>
    ELSE LET s == stmts[i]
             here == CASE s.kind = "FunctionStatement" ->
                              <<s.name>> \o FunctionNameList(s.body.statements, 1)
                       [] s.kind = "BlockStatement" -> FunctionNameList(s.statements, 1)
                       [] s.kind = "IfStatement" ->
                              FunctionNameList(s.consequence.statements, 1)
                       [] OTHER -> <<>>
         IN  here \o FunctionNameList(stmts, i + 1)

\* no two function declarations of the program have the same name
DistinctFunctionNames ==
    LET names == FunctionNameList(program, 1)
    IN  \A i, j \in 1..Len(names) : names[i] = names[j] => i = j

\* C17 as amended: the emission order holds for every program in which no
\* two function declarations have the same name
C17_DistinctNames == DistinctFunctionNames => C17_EmissionOrder

\* Generate has returned the text for a program with two top-level
\* functions of different names, one of them with parameters
C17_Witness ==
    /\ pc = "generated" /\ Len(runs) >= 1
    /\ DistinctFunctionNames
    /\ Cardinality(TopFunctions) = 2
    /\ \E f \in TopFunctions : Len(f.parameters) = 2
    /\ Cardinality(Occurrences(<<"int main() {\n">>, runs[1])) = 1

----------------------------------------------------------------------------
(* The text one EmitStatement step appends, and the operand classes of the *)
(* inference rule under a symbol table T.                                  *)

StepText == SubSeq(cg'.output, Len(cg.output) + 1, Len(cg'.output))

IsStringLit(e) == e.kind = "StringLiteral"
IsStringIdent(T, e) ==
    e.kind = "Identifier" /\ e.value \in DOMAIN T /\ T[e.value] = "string"

InferredString(T, l, r) ==
    \/ IsStringLit(l) /\ IsStringLit(r)
    \/ IsStringLit(l) /\ IsStringIdent(T, r)
    \/ IsStringIdent(T, l) /\ IsStringLit(r)

IsPlus(e) == e.kind = "InfixExpression" /\ e.operator = <<"+">>

\* C18: a var statement initialized with l + r records and declares the
\* variable as string (char*) exactly when (l, r) is literal+literal,
\* literal+string identifier or string identifier+literal under the symbol
\* table in force, and as int otherwise; with two string-typed identifiers
\* the statement is `int name = l + r;`.
C18_PlusInference ==
    [][(pos' = pos + 1 /\ program[pos].kind = "LetStatement" /\ IsPlus(program[pos].value)) =>
        LET s == program[pos]
            l == s.value.left
            r == s.value.right
            T == cg.variables
        IN  /\ cg'.variables[s.name] = IF InferredString(T, l, r) THEN "string" ELSE "int"
            /\ StepText[1] = IF InferredString(T, l, r) THEN "    char* " ELSE "    int "
            /\ (IsStringIdent(T, l) /\ IsStringIdent(T, r)) =>
                   StepText = <<"    int ">> \o s.name \o <<" = ">> \o l.value
                                 \o <<" ", "+", " ">> \o r.value \o <<";\n">>]_vars

\* var x = "Hi, "; var y = "Hi, "; var z = x + y;  has been emitted, z is int
C18_Witness ==
    /\ pc = "emit" /\ Len(program) = 3 /\ pos = 4
    /\ program[1] = LetStatement(<<"x">>, StringLiteral(<<"H", "i", ",", " ">>))
    /\ program[2] = LetStatement(<<"y">>, StringLiteral(<<"H", "i", ",", " ">>))
    /\ program[3] = LetStatement(<<"z">>,
                        InfixExpression(<<"+">>, Identifier(tX), Identifier(tY)))
    /\ cg.variables[<<"x">>] = "string" /\ cg.variables[<<"y">>] = "string"
    /\ cg.variables[<<"z">>] = "int"

\* the expression "l op r" a statement of GenContexts holds
ExprOf(stmt) ==
    CASE stmt.kind \in {"LetStatement", "AssignmentStatement", "PrintStatement",
                        "ReturnStatement"} -> stmt.value
      [] stmt.kind = "IfStatement" -> stmt.condition
      [] stmt.kind = "ExpressionStatement" ->
            IF stmt.expression.kind = "FunctionCall"
            THEN stmt.expression.arguments[Len(stmt.expression.arguments)]
            ELSE stmt.expression
      [] OTHER -> Nil

\* the C text of a concatenation: one folded literal, or a call of
\* concat_strings with the operands in source order
ConcatText(l, r) ==
    IF IsStringLit(l) /\ IsStringLit(r)
    THEN <<"\"">> \o l.value \o r.value \o <<"\"">>
    ELSE IF IsStringLit(l)
    THEN <<"concat_strings(\"">> \o l.value \o <<"\", ">> \o r.value \o <<")">>
    ELSE <<"concat_strings(">> \o l.value \o <<", \"">> \o r.value \o <<"\")">>

\* C19: whenever a statement holds an l + r that is inferred string-typed,
\* its text holds the folded literal (literal+literal) or the call
\* concat_strings(l, r) in source order and no `+`; a var statement records
\* the variable as string and reads `char* name = <that text>;`.
C19_ConcatEmission ==
    [][(/\ pos' = pos + 1
        /\ IsPlus(ExprOf(program[pos]))
        /\ InferredString(cg.variables, ExprOf(program[pos]).left, ExprOf(program[pos]).right)) =>
        LET s == program[pos]
            l == ExprOf(s).left
            r == ExprOf(s).right
        IN  /\ Occurrences(ConcatText(l, r), StepText) # {}
            /\ \A i \in 1..Len(StepText) : StepText[i] # "+"
            /\ s.kind = "LetStatement" =>
                   /\ cg'.variables[s.name] = "string"
                   /\ StepText = <<"    char* ">> \o s.name \o <<" = ">>
                                 \o ConcatText(l, r) \o <<";\n">>]_vars

\* var x = "Hi, "; var z = x + "s";  has been emitted
C19_Witness ==
    /\ pc = "emit" /\ Len(program) = 2 /\ pos = 3
    /\ program[1] = LetStatement(<<"x">>, StringLiteral(<<"H", "i", ",", " ">>))
    /\ program[2] = LetStatement(<<"z">>,
                        InfixExpression(<<"+">>, Identifier(tX), StringLiteral(<<"s">>)))
    /\ cg.variables[<<"z">>] = "string"
    /\ Occurrences(<<"concat_strings(", "x", ", \"", "s", "\")">>, cg.output) # {}

IsEquality(e) ==
    e.kind = "InfixExpression" /\ e.operator \in {<<"=", "=">>, <<"!", "=">>}

\* an operand that the inference rule types as string under T
StringTyped(T, a) ==
    \/ IsStringLit(a)
    \/ IsStringIdent(T, a)
    \/ IsPlus(a) /\ InferredString(T, a.left, a.right)

\* the C text of an operand of GenOperands
OperandText(a) ==
    CASE a.kind = "StringLiteral" -> <<"\"">> \o a.value \o <<"\"">>
      [] a.kind = "IntegerLiteral" -> FormatInt(a.value)
      [] a.kind = "Identifier" -> a.value
      [] a.kind = "InfixExpression" -> ConcatText(a.left, a.right)

StrcmpText(e) ==
    <<"(strcmp(">> \o OperandText(e.left) \o <<", ">> \o OperandText(e.right)
    \o <<IF e.operator = <<"=", "=">> THEN ") == 0)" ELSE ") != 0)">>

RawText(e) ==
    OperandText(e.left) \o <<" ">> \o e.operator \o <<" ">> \o OperandText(e.right)

\* C20: whenever a statement (var, assignment, print, if, return, call
\* argument) holds l == r or l != r with an operand that is string-typed
\* under the symbol table the statement is emitted from, its text holds
\* (strcmp(l, r) == 0) resp. (strcmp(l, r) != 0) and not the raw comparison.
C20_StrcmpRewrite ==
    [][(/\ pos' = pos + 1
        /\ IsEquality(ExprOf(program[pos]))
        /\ \/ StringTyped(cg.variables, ExprOf(program[pos]).left)
           \/ StringTyped(cg.variables, ExprOf(program[pos]).right)) =>
        /\ Occurrences(StrcmpText(ExprOf(program[pos])), StepText) # {}
        /\ Occurrences(RawText(ExprOf(program[pos])), StepText) = {}]_vars

\* the same with the operands typed under the table the generator holds
\* once the statement is emitted, which for a var statement already records
\* the declared variable
C20_TableAtEmission ==
    [][(/\ pos' = pos + 1
        /\ IsEquality(ExprOf(program[pos]))
        /\ \/ StringTyped(cg'.variables, ExprOf(program[pos]).left)
           \/ StringTyped(cg'.variables, ExprOf(program[pos]).right)) =>
        /\ Occurrences(StrcmpText(ExprOf(program[pos])), StepText) # {}
        /\ Occurrences(RawText(ExprOf(program[pos])), StepText) = {}]_vars

----------------------------------------------------------------------------
\* every symbol table over x and y
Tables == UNION {[D -> {"int", "string"}] : D \in SUBSET {<<"x">>, <<"y">>}}

RECURSIVE ScopedConstructs(_, _)
\* the blocks and if statements among stmts[i..] and below them
ScopedConstructs(stmts, i) ==
    IF i > Len(stmts) THEN {}
    ELSE LET c == stmts[i]
             here == CASE c.kind = "BlockStatement" ->
                              {c} \cup ScopedConstructs(c.statements, 1)
                       [] c.kind = "IfStatement" ->
                              {c} \cup ScopedConstructs(c.consequence.statements, 1)
                       [] c.kind = "FunctionStatement" ->
                              ScopedConstructs(c.body.statements, 1)
                       [] OTHER -> {}
         IN  here \cup ScopedConstructs(stmts, i + 1)

\* C21: the symbol table after a block, an if statement or the function
\* definitions have been emitted equals the table before, whatever is
\* declared inside; this holds for the constructs nested in them too, under
\* every table; and the table is empty when the entry point begins.
C21_ScopeRestored ==
    [][/\ (pc = "emit" /\ pos' = pos + 1
           /\ program[pos].kind \in {"BlockStatement", "IfStatement"})
          => cg'.variables = cg.variables
       /\ (pc = "define" /\ pc' = "main") =>
             /\ cg'.variables = cg.variables
             /\ \A n \in DOMAIN cg.functions, T \in Tables :
                    generateFunctionDefinition([cg EXCEPT !.variables = T], n,
                        cg.functions[n]).variables = T
             /\ \A n \in DOMAIN cg.functions, T \in Tables :
                    \A c \in ScopedConstructs(cg.functions[n].body.statements, 1) :
                        generateStatement([cg EXCEPT !.variables = T], c).variables = T
       /\ (pc = "main" /\ pc' = "emit") =>
             /\ cg'.variables = EmptyMap
             /\ \A c \in ScopedConstructs(program, 1), T \in Tables :
                    generateStatement([cg EXCEPT !.variables = T], c).variables = T]_vars

\* if x == 1 { ...; var y = 1; } or { ...; y = "s"; } has been emitted in the
\* entry point and y is not in the table
C21_Witness ==
    /\ pc = "emit" /\ pos > 1 /\ pos <= Len(program) + 1
    /\ program[pos - 1].kind = "IfStatement"
    /\ \E k \in 1..Len(program[pos - 1].consequence.statements) :
           program[pos - 1].consequence.statements[k] = LetStatement(<<"y">>, IntegerLiteral(1))
    /\ <<"y">> \notin DOMAIN cg.variables

----------------------------------------------------------------------------
\* Generate has no error result: the one way it can fail is a run-time panic
ErrorSignalled(g) == g.panicked

\* statement k is an if whose block declares y, statement k + 1 is print(y),
\* and y is declared nowhere else
ReadsClosedName(k) ==
    /\ k + 1 <= Len(program)
    /\ program[k].kind = "IfStatement"
    /\ \E j \in 1..Len(program[k].consequence.statements) :
           program[k].consequence.statements[j] \in
               {LetStatement(<<"y">>, IntegerLiteral(1)),
                AssignmentStatement(<<"y">>, StringLiteral(<<"s">>))}
    /\ program[k + 1] = PrintStatement(Identifier(tY))
    /\ \A j \in 1..(k - 1) :
           program[j].kind \notin {"LetStatement", "AssignmentStatement"}
           \/ program[j].name # <<"y">>

\* C22: for a program that declares y only inside an if block and prints it
\* after the block, Generate does not return C text: it signals an error.
C22_UseAfterIfReported ==
    (pc = "returned" /\ \E k \in 1..Len(program) : ReadsClosedName(k))
        => ErrorSignalled(cg)

----------------------------------------------------------------------------
PrintfString == "    printf(\"%s\\n\", "
PrintfInt == "    printf(\"%d\\n\", "

Pieces(text) == {text[i] : i \in 1..Len(text)}

\* C23: an expression statement emitted in the entry point is wrapped in a
\* printf with %s exactly when the expression is string-typed (a string
\* literal, a string-typed identifier, a recognized concatenation) and with
\* %d otherwise; the function definitions hold no printf for the
\* expression statements of a function body.
C23_AutoPrint ==
    [][/\ (pc = "emit" /\ pos' = pos + 1 /\ program[pos].kind = "ExpressionStatement"
           /\ IsNil(cg.currentFunc)) =>
             IF StringTyped(cg.variables, program[pos].expression)
             THEN PrintfString \in Pieces(StepText) /\ PrintfInt \notin Pieces(StepText)
             ELSE PrintfInt \in Pieces(StepText) /\ PrintfString \notin Pieces(StepText)
       /\ (pc = "define" /\ pc' = "main") =>
             Pieces(StepText) \cap {PrintfString, PrintfInt} = {}]_vars

----------------------------------------------------------------------------
\* a statement whose emission reaches a node generateExpression has no case
\* for: a function literal as value or argument, or an absent expression
\* where one is emitted (var z; without a value is a declaration)
ReachesUnsupported(stmt) ==
    \/ ExprOf(stmt).kind = "FunctionLiteral"
    \/ /\ IsNil(ExprOf(stmt))
       /\ stmt.kind \in {"PrintStatement", "AssignmentStatement", "ExpressionStatement"}

\* C24: when the emission of the entry point reaches a node without an
\* emission rule, Generate does not return C text: it signals an error.
C24_UnsupportedIsError ==
    (pc = "returned" /\ \E k \in 1..Len(program) : ReachesUnsupported(program[k]))
        => ErrorSignalled(cg)

----------------------------------------------------------------------------
\* C25: print(e) is emitted as a printf with %s exactly when e is
\* string-typed under the table in force (a string literal, a string-typed
\* identifier, a recognized concatenation) and with %d otherwise.
C25_PrintFormat ==
    [][(pc = "emit" /\ pos' = pos + 1 /\ program[pos].kind = "PrintStatement") =>
          StepText[1] = IF StringTyped(cg.variables, program[pos].value)
                        THEN PrintfString ELSE PrintfInt]_vars

----------------------------------------------------------------------------
\* C26: an assignment to a name that is not in the table records the name
\* with the type inferred for the value and starts with `char* ` or `int `;
\* an assignment to a name that is in the table starts with the bare name,
\* holds no type keyword and leaves the table unchanged.
C26_AssignmentDeclaresOnce ==
    [][(pc = "emit" /\ pos' = pos + 1 /\ program[pos].kind = "AssignmentStatement") =>
        LET s == program[pos]
            T == cg.variables
            t == IF StringTyped(T, s.value) THEN "string" ELSE "int"
            n == Len(s.name)
        IN  /\ SubSeq(StepText, 2, n + 2) = s.name \o <<" = ">>
            /\ StepText[Len(StepText)] = ";\n"
            /\ IF s.name \notin DOMAIN T
               THEN /\ cg'.variables = MapSet(T, s.name, t)
                    /\ StepText[1] = IF t = "string" THEN "    char* " ELSE "    int "
               ELSE /\ cg'.variables = T
                    /\ StepText[1] = "    "
                    /\ Pieces(StepText) \cap {"    char* ", "    int "} = {}]_vars

\* var x = 1; x = "s";  has been emitted: x is still int
C26_Witness ==
    /\ pc = "emit" /\ pos = 3 /\ Len(program) = 2
    /\ program[1] = LetStatement(<<"x">>, IntegerLiteral(1))
    /\ program[2] = AssignmentStatement(<<"x">>, StringLiteral(<<"s">>))
    /\ cg.variables[<<"x">>] = "int"
    /\ Occurrences(<<"    ", "x", " = ", "\"", "s", "\"", ";\n">>, cg.output) # {}

----------------------------------------------------------------------------
\* the tokens from i on start with the print statement  print ( x )
PrintAt(i) ==
    /\ TokAt(i).type = "PRINT" /\ TokAt(i + 1).type = "("
    /\ TokAt(i + 2).type = "IDENT" /\ TokAt(i + 3).type = ")"

\* C27: the iteration of ParseProgram that parses print(x) with or without
\* its semicolon appends the print statement and leaves the cursor on the
\* first token after the statement (after the semicolon, if there is one).
C27_PrintSemicolonOptional ==
    [][(pc = "parse" /\ pc' = "parse" /\ PrintAt(pos)) =>
          /\ program' = Append(program, PrintStatement(Identifier(TokAt(pos + 2))))
          /\ pos' = IF TokAt(pos + 4).type = ";" THEN pos + 5 ELSE pos + 4]_vars

----------------------------------------------------------------------------
\* the function table entry of name n as a declaration
TableFunction(n) == [name |-> n, parameters |-> cg.functions[n].parameters]

\* C28: when Generate returns, every function of the function table has a
\* forward declaration and a definition in the returned text.
C28_TableFunctionsEmitted ==
    pc = "returned" =>
        \A n \in DOMAIN cg.functions :
            /\ Occurrences(DeclText(TableFunction(n)), cg.output) # {}
            /\ Occurrences(DefText(TableFunction(n)), cg.output) # {}

----------------------------------------------------------------------------
RECURSIVE ParameterLists(_, _)
\* the parameter lists of the function declarations and function literals
\* among stmts[i..] and below them
ParameterLists(stmts, i) ==
    IF i > Len(stmts) THEN {}
    ELSE LET s == stmts[i]
             below(b) == IF b.kind = "BlockStatement" THEN ParameterLists(b.statements, 1)
                         ELSE {}
             literal(e) == IF e.kind = "FunctionLiteral"
                           THEN {e.parameters} \cup below(e.body) ELSE {}
             here == CASE s.kind = "FunctionStatement" -> {s.parameters} \cup below(s.body)
                       [] s.kind = "BlockStatement" -> below(s)
                       [] s.kind = "IfStatement" -> below(s.consequence)
                       [] s.kind = "ExpressionStatement" -> literal(s.expression)
                       [] s.kind = "LetStatement" -> literal(s.value)
                       [] OTHER -> {}
         IN  here \cup ParameterLists(stmts, i + 1)

\* C29: every parameter of a parsed function declaration or function
\* literal was made from an IDENT token.
C29_ParametersAreIdentifiers ==
    \A ps \in ParameterLists(program, 1) : \A k \in 1..Len(ps) : ps[k].tok = "IDENT"

----------------------------------------------------------------------------
\* C30: NextToken returns EOF only with the byte cursor at or past the end
\* of the input (the cursor then moves one past it), whatever bytes the
\* input holds, the zero byte included.
C30_EOFOnlyAtEnd ==
    \A i \in 1..Len(lexed) :
        lexed[i].tok.type = "EOF" => lexed[i].after > Len(lexer.input)

====
